---- MODULE Spec2Model ----
(***************************************************************************)
(* A model of the Retsinformation ingestion code of the Danish-law MCP     *)
(* server (src/api/mcp.ts): text normalisation, text extraction from the   *)
(* parsed XML tree, chapter / section resolution, the provision walk with  *)
(* its deduplication, and the definition heuristic; and of the citation    *)
(* tools, the database download, the update checker, the HTTP handler and  *)
(* the tool registry of the same file, and of the bulk ingestion           *)
(* (src/scripts/auto-ingest-all-statutes.ts).                              *)
(*                                                                         *)
(* Strings are sequences of characters; a character is a one-element token *)
(* ("a", "1", " "), and the non-ASCII or invisible characters the code     *)
(* treats specially have ASCII token names ("<sect>" is U+00A7).           *)
(***************************************************************************)
EXTENDS Integers, Sequences, FiniteSets, TLC

VARIABLES
    \* ingestion of one document (collectProvisions, extractDefinitions)
    root,          \* the value handed to the operation: the parsed document node
    section,       \* result of the section resolution of a Paragraf
    text,          \* result of extractText
    emitted,       \* the walk's `provisions` array before dedupeProvisions
    origin,        \* history: the tree position of the Paragraf of each emitted entry
    visited,       \* history: the tree positions walk() was called on, in order
    provisions,    \* result of collectProvisions / input of extractDefinitions
    definitions,   \* result of extractDefinitions
    \* normalizeWhitespace on its own
    raw,           \* the text handed to normalizeWhitespace
    normal,        \* history: the results of the successive applications
    \* toAsciiKey on its own
    input,         \* the text handed to toAsciiKey
    asciiKey,      \* its result
    \* several documents ingested side by side
    ingests,       \* the ingest calls under way: each one's document, results and position
    \* format_citation and validate_citation
    citation,      \* the citation string handed to the tool
    structured,    \* the outcome of parsing it: a StructuredCitation or a ParseError
    formatted,     \* the parsed citation rendered in the "full" style
    reparsed,      \* the outcome of parsing the rendered string
    store,         \* the documents of the database: id |-> provision refs and in-force window
    asOfDate,      \* the date the citation is checked for, NoDate when none is given
    validation,    \* the ValidationResult of validate_citation
    \* downloadDatabase
    response,      \* the response in hand: its statusCode (0 when undefined) and headers.location
    redirects,     \* the loop's count of redirects followed
    requested,     \* history: the URLs requested, in order
    files,         \* the paths that exist under /tmp
    \* inferLocalIdFromAccession on its own
    accession,     \* the accession number handed to inferLocalIdFromAccession
    inferred,      \* its result: the local id, or null
    \* the update checker (check-updates)
    argv,          \* the command-line flags given
    database,      \* the local database file: missing, unreadable or present
    localDocs,     \* the statute rows of the local database, ordered by id
    feed,          \* what the Retsinformation API answers when asked
    fetched,       \* history: whether the API was asked
    report,        \* the UpdateReport under construction
    printed,       \* what the run wrote: nothing, an error message or the report
    exitCode,      \* the status the process ended with, -1 while it runs
    \* the bulk ingestion (ingestBatch)
    laws,          \* the law entries handed to ingestBatch
    options,       \* the CLI options: dryRun, skipExisting, delayMs
    existingIds,   \* the ids that have a seed file
    stats,         \* the IngestionStats under construction
    cursor,        \* the loop's index i, counted from 1
    ingestCalls,   \* history: the calls of ingest, each with its url and output path
    seedFiles,     \* history: the seed files written by ingest
    \* the HTTP handler and ensureDatabase, several invocations in one process
    db,            \* the module-level handle: 0 for null, else the number of the handle
    handles,       \* history: the database handles opened, in order
    names,         \* the file system: each path's inode, 0 when the path does not exist
    inodes,        \* the content of each inode: the chunks written, holes between them
    envDb,         \* process.env.DANISH_LAW_DB_PATH, "" when unset
    calls,         \* the invocations of the handler, in order of arrival
    \* the tool registry (buildTools, registerTools)
    aboutContext,  \* whether registerTools was given an about context
    listedTools,   \* the tools of the last ListTools result, <<>> before any
    toolCall,      \* the last CallTool request: the tool name and what the tool does
    toolResult,    \* what the CallTool handler gave for it
    pc             \* position in the operation under way

vars == <<root, section, text, emitted, origin, visited, provisions,
        definitions, raw, normal, input, asciiKey, ingests, citation,
        structured, formatted, reparsed, store, asOfDate, validation,
        response, redirects, requested, files, accession, inferred, argv,
        database, localDocs, feed, fetched, report, printed, exitCode, laws,
        options, existingIds, stats, cursor, ingestCalls, seedFiles, db,
        handles, names, inodes, envDb, calls, aboutContext, listedTools,
        toolCall, toolResult, pc>>

\* The variables of each part of the program.
pipeVars == <<root, section, text, emitted, origin, visited, provisions,
        definitions>>
normVars == <<raw, normal>>
keyVars == <<input, asciiKey>>
batchVars == <<ingests>>
citeVars == <<citation, structured, formatted, reparsed, store, asOfDate,
        validation>>
downloadVars == <<response, redirects, requested, files>>
accessionVars == <<accession, inferred>>
updateVars == <<argv, database, localDocs, feed, fetched, report, printed,
        exitCode>>
bulkVars == <<laws, options, existingIds, stats, cursor, ingestCalls,
        seedFiles>>
serverVars == <<db, handles, names, inodes, envDb, calls>>
toolsVars == <<aboutContext, listedTools, toolCall, toolResult>>

\* The variables an operation of one part leaves alone: those of the other parts.
notPipeVars == <<normVars, keyVars, batchVars, citeVars, downloadVars,
        accessionVars, updateVars, bulkVars, serverVars, toolsVars>>
notNormVars == <<pipeVars, keyVars, batchVars, citeVars, downloadVars,
        accessionVars, updateVars, bulkVars, serverVars, toolsVars>>
notKeyVars == <<pipeVars, normVars, batchVars, citeVars, downloadVars,
        accessionVars, updateVars, bulkVars, serverVars, toolsVars>>
notBatchVars == <<pipeVars, normVars, keyVars, citeVars, downloadVars,
        accessionVars, updateVars, bulkVars, serverVars, toolsVars>>
notCiteVars == <<pipeVars, normVars, keyVars, batchVars, downloadVars,
        accessionVars, updateVars, bulkVars, serverVars, toolsVars>>
notDownloadVars == <<pipeVars, normVars, keyVars, batchVars, citeVars,
        accessionVars, updateVars, bulkVars, serverVars, toolsVars>>
notAccessionVars == <<pipeVars, normVars, keyVars, batchVars, citeVars,
        downloadVars, updateVars, bulkVars, serverVars, toolsVars>>
notUpdateVars == <<pipeVars, normVars, keyVars, batchVars, citeVars,
        downloadVars, accessionVars, bulkVars, serverVars, toolsVars>>
notBulkVars == <<pipeVars, normVars, keyVars, batchVars, citeVars,
        downloadVars, accessionVars, updateVars, serverVars, toolsVars>>
notServerVars == <<pipeVars, normVars, keyVars, batchVars, citeVars,
        downloadVars, accessionVars, updateVars, bulkVars, toolsVars>>
notToolsVars == <<pipeVars, normVars, keyVars, batchVars, citeVars,
        downloadVars, accessionVars, updateVars, bulkVars, serverVars>>


(***************************************************************************)
(* Characters                                                              *)
(***************************************************************************)
Sect == "<sect>"      \* U+00A7 SECTION SIGN
Nbsp == "<nbsp>"      \* U+00A0 NO-BREAK SPACE
Tab  == "<tab>"       \* U+0009
Ring == "<ring>"      \* U+030A COMBINING RING ABOVE
aa   == "<aa>"        \* U+00E5, a with ring
AA   == "<AA>"        \* U+00C5, A with ring
ae   == "<ae>"        \* U+00E6
AE   == "<AE>"        \* U+00C6
oe   == "<oe>"        \* U+00F8
OE   == "<OE>"        \* U+00D8
Sup2 == "<sup2>"      \* U+00B2 SUPERSCRIPT TWO

Digits == {"0", "1", "2", "3", "4", "5", "6", "7", "8", "9"}

LowerSeq ==
    <<"a", "b", "c", "d", "e", "f", "g", "h", "i", "j", "k", "l", "m",
      "n", "o", "p", "q", "r", "s", "t", "u", "v", "w", "x", "y", "z",
      aa, ae, oe>>

UpperSeq ==
    <<"A", "B", "C", "D", "E", "F", "G", "H", "I", "J", "K", "L", "M",
      "N", "O", "P", "Q", "R", "S", "T", "U", "V", "W", "X", "Y", "Z",
      AA, AE, OE>>

\* [a-zA-Z]
AsciiLetters == {LowerSeq[i] : i \in 1..26} \cup {UpperSeq[i] : i \in 1..26}

\* JavaScript's \s, and the characters String.prototype.trim removes.
IsWs(c) == c \in {" ", Tab, Nbsp}

\* String.prototype.toLowerCase on one character.
LowerChar(c) ==
    IF \E i \in 1..Len(UpperSeq) : UpperSeq[i] = c
    THEN LowerSeq[CHOOSE i \in 1..Len(UpperSeq) : UpperSeq[i] = c]
    ELSE c

toLowerCase(s) == [i \in 1..Len(s) |-> LowerChar(s[i])]

(***************************************************************************)
(* normalizeWhitespace (mcp.ts 885-891)                                    *)
(***************************************************************************)
\* .replace(/\u00A0/g, ' ')
ReplaceNbsp(s) == [i \in 1..Len(s) |-> IF s[i] = Nbsp THEN " " ELSE s[i]]

\* Pairs of whitespace characters replaced instead of runs: /\s\s/g.
RECURSIVE CollapsePairsFrom(_, _)
CollapsePairsFrom(s, i) ==
    IF i > Len(s) THEN <<>>
    ELSE IF i < Len(s) /\ IsWs(s[i]) /\ IsWs(s[i + 1])
         THEN <<" ">> \o CollapsePairsFrom(s, i + 2)
         ELSE <<s[i]>> \o CollapsePairsFrom(s, i + 1)

CollapsePairs(s) == CollapsePairsFrom(s, 1)

\* .replace(/\s+/g, ' ')
RECURSIVE CollapseFrom(_, _)
CollapseFrom(s, i) ==
    IF i > Len(s) THEN <<>>
    ELSE IF IsWs(s[i])
         THEN IF i > 1 /\ IsWs(s[i - 1])
              THEN CollapseFrom(s, i + 1)
              ELSE <<" ">> \o CollapseFrom(s, i + 1)
         ELSE <<s[i]>> \o CollapseFrom(s, i + 1)

CollapseWs(s) == CollapseFrom(s, 1)

\* Only the leading whitespace removed: .trimStart()
TrimStart(s) ==
    LET keep == {i \in 1..Len(s) : ~IsWs(s[i])}
    IN  IF keep = {} THEN <<>>
        ELSE SubSeq(s, CHOOSE i \in keep : \A j \in keep : i <= j, Len(s))

\* .trim()
Trim(s) ==
    LET keep == {i \in 1..Len(s) : ~IsWs(s[i])}
    IN  IF keep = {} THEN <<>>
        ELSE LET lo == CHOOSE i \in keep : \A j \in keep : i <= j
                 hi == CHOOSE i \in keep : \A j \in keep : j <= i
             IN  SubSeq(s, lo, hi)

\* .normalize('NFC') over the model's alphabet: the only decomposed forms are
\* a / A followed by the combining ring, which compose to U+00E5 / U+00C5.
RECURSIVE NFCFrom(_, _)
NFCFrom(s, i) ==
    IF i > Len(s) THEN <<>>
    ELSE IF i < Len(s) /\ s[i + 1] = Ring /\ s[i] \in {"a", "A"}
         THEN <<IF s[i] = "a" THEN aa ELSE AA>> \o NFCFrom(s, i + 2)
         ELSE <<s[i]>> \o NFCFrom(s, i + 1)

NFC(s) == NFCFrom(s, 1)

normalizeWhitespace(s) == NFC(Trim(CollapseWs(ReplaceNbsp(s))))

(***************************************************************************)
(* toAsciiKey (mcp.ts 893-900)                                             *)
(***************************************************************************)
\* .normalize('NFKD') over the model's alphabet: the letters with a ring
\* decompose canonically, the no-break space and the superscript two have
\* compatibility decompositions; U+00E6, U+00F8 and U+00A7 have none.
RECURSIVE NFKD(_)
NFKD(s) ==
    IF s = <<>> THEN <<>>
    ELSE (IF Head(s) = aa THEN <<"a", Ring>>
          ELSE IF Head(s) = AA THEN <<"A", Ring>>
          ELSE IF Head(s) = Nbsp THEN <<" ">>
          ELSE IF Head(s) = Sup2 THEN <<"2">>
          ELSE <<Head(s)>>) \o NFKD(Tail(s))

\* .replace(/[\u0300-\u036f]/g, '')
StripMarks(s) == SelectSeq(s, LAMBDA c : c # Ring)

\* [A-Za-z0-9]
IsAlnum(c) == c \in AsciiLetters \cup Digits

\* Every character outside [A-Za-z0-9] replaced on its own: /[^A-Za-z0-9]/g.
ReplaceEachNonAlnum(s) == [i \in 1..Len(s) |-> IF IsAlnum(s[i]) THEN s[i] ELSE "_"]

\* .replace(/[^A-Za-z0-9]+/g, '_')
RECURSIVE ReplaceNonAlnumFrom(_, _)
ReplaceNonAlnumFrom(s, i) ==
    IF i > Len(s) THEN <<>>
    ELSE IF IsAlnum(s[i]) THEN <<s[i]>> \o ReplaceNonAlnumFrom(s, i + 1)
    ELSE IF i > 1 /\ ~IsAlnum(s[i - 1]) THEN ReplaceNonAlnumFrom(s, i + 1)
    ELSE <<"_">> \o ReplaceNonAlnumFrom(s, i + 1)

ReplaceNonAlnum(s) == ReplaceNonAlnumFrom(s, 1)

\* .replace(/^_+|_+$/g, '')
StripUnderscores(s) ==
    LET keep == {i \in 1..Len(s) : s[i] # "_"}
    IN  IF keep = {} THEN <<>>
        ELSE SubSeq(s, CHOOSE i \in keep : \A j \in keep : i <= j,
                       CHOOSE i \in keep : \A j \in keep : j <= i)

toAsciiKey(input_) ==
    toLowerCase(StripUnderscores(ReplaceNonAlnum(StripMarks(NFKD(input_)))))

(***************************************************************************)
(* The parsed XML tree.  A value is null/undefined, a string, another      *)
(* scalar (number or boolean, with its String() rendering), an array, or   *)
(* an object whose entries keep their insertion order.                     *)
(***************************************************************************)
Null      == [t |-> "null", s |-> <<>>, kids |-> <<>>]
Str(s)    == [t |-> "str",  s |-> s,    kids |-> <<>>]
Num(s)    == [t |-> "num",  s |-> s,    kids |-> <<>>]
Entry(k, v) == [k |-> k, v |-> v]
Arr(items) == [t |-> "arr", s |-> <<>>,
               kids |-> [i \in 1..Len(items) |-> Entry("", items[i])]]
Obj(entries) == [t |-> "obj", s |-> <<>>, kids |-> entries]

\* objectNode.key: undefined when the object has no such key, and undefined
\* on a string, number or boolean.
Prop(node, key) ==
    IF node.t = "obj" /\ \E i \in 1..Len(node.kids) : node.kids[i].k = key
    THEN node.kids[CHOOSE i \in 1..Len(node.kids) : node.kids[i].k = key].v
    ELSE Null

\* The position of that key among the object's entries (0: absent).
KeyIndex(node, key) ==
    IF node.t = "obj" /\ \E i \in 1..Len(node.kids) : node.kids[i].k = key
    THEN CHOOSE i \in 1..Len(node.kids) : node.kids[i].k = key
    ELSE 0

\* An optional string: the result of the chapter / section parsers.
None    == [some |-> FALSE, v |-> <<>>]
Some(s) == [some |-> TRUE, v |-> s]

(***************************************************************************)
(* The values the variables of a part hold while the part is not in use.  *)
(***************************************************************************)
PipeIdle ==
    /\ root = Null
    /\ section = None
    /\ text = <<>>
    /\ emitted = <<>>
    /\ origin = <<>>
    /\ visited = <<>>
    /\ provisions = <<>>
    /\ definitions = <<>>

NormIdle ==
    /\ raw = <<>>
    /\ normal = <<>>

KeyIdle ==
    /\ input = <<>>
    /\ asciiKey = <<>>

BatchIdle ==
    /\ ingests = <<>>

CiteIdle ==
    /\ citation = <<>>
    /\ structured = <<>>
    /\ formatted = <<>>
    /\ reparsed = <<>>
    /\ store = <<>>
    /\ asOfDate = 0
    /\ validation = <<>>

DownloadIdle ==
    /\ response = <<>>
    /\ redirects = 0
    /\ requested = <<>>
    /\ files = {}

AccessionIdle ==
    /\ accession = <<>>
    /\ inferred = None

UpdateIdle ==
    /\ argv = {}
    /\ database = "missing"
    /\ localDocs = <<>>
    /\ feed = <<>>
    /\ fetched = FALSE
    /\ report = <<>>
    /\ printed = "nothing"
    /\ exitCode = -1

BulkIdle ==
    /\ laws = <<>>
    /\ options = <<>>
    /\ existingIds = {}
    /\ stats = <<>>
    /\ cursor = 0
    /\ ingestCalls = <<>>
    /\ seedFiles = {}

ServerIdle ==
    /\ db = 0
    /\ handles = <<>>
    /\ names = <<>>
    /\ inodes = <<>>
    /\ envDb = ""
    /\ calls = <<>>

ToolsIdle ==
    /\ aboutContext = FALSE
    /\ listedTools = <<>>
    /\ toolCall = <<>>
    /\ toolResult = <<>>

NotPipeIdle ==
    /\ NormIdle
    /\ KeyIdle
    /\ BatchIdle
    /\ CiteIdle
    /\ DownloadIdle
    /\ AccessionIdle
    /\ UpdateIdle
    /\ BulkIdle
    /\ ServerIdle
    /\ ToolsIdle

NotNormIdle ==
    /\ PipeIdle
    /\ KeyIdle
    /\ BatchIdle
    /\ CiteIdle
    /\ DownloadIdle
    /\ AccessionIdle
    /\ UpdateIdle
    /\ BulkIdle
    /\ ServerIdle
    /\ ToolsIdle

NotKeyIdle ==
    /\ PipeIdle
    /\ NormIdle
    /\ BatchIdle
    /\ CiteIdle
    /\ DownloadIdle
    /\ AccessionIdle
    /\ UpdateIdle
    /\ BulkIdle
    /\ ServerIdle
    /\ ToolsIdle

NotBatchIdle ==
    /\ PipeIdle
    /\ NormIdle
    /\ KeyIdle
    /\ CiteIdle
    /\ DownloadIdle
    /\ AccessionIdle
    /\ UpdateIdle
    /\ BulkIdle
    /\ ServerIdle
    /\ ToolsIdle

NotCiteIdle ==
    /\ PipeIdle
    /\ NormIdle
    /\ KeyIdle
    /\ BatchIdle
    /\ DownloadIdle
    /\ AccessionIdle
    /\ UpdateIdle
    /\ BulkIdle
    /\ ServerIdle
    /\ ToolsIdle

NotDownloadIdle ==
    /\ PipeIdle
    /\ NormIdle
    /\ KeyIdle
    /\ BatchIdle
    /\ CiteIdle
    /\ AccessionIdle
    /\ UpdateIdle
    /\ BulkIdle
    /\ ServerIdle
    /\ ToolsIdle

NotAccessionIdle ==
    /\ PipeIdle
    /\ NormIdle
    /\ KeyIdle
    /\ BatchIdle
    /\ CiteIdle
    /\ DownloadIdle
    /\ UpdateIdle
    /\ BulkIdle
    /\ ServerIdle
    /\ ToolsIdle

NotUpdateIdle ==
    /\ PipeIdle
    /\ NormIdle
    /\ KeyIdle
    /\ BatchIdle
    /\ CiteIdle
    /\ DownloadIdle
    /\ AccessionIdle
    /\ BulkIdle
    /\ ServerIdle
    /\ ToolsIdle

NotBulkIdle ==
    /\ PipeIdle
    /\ NormIdle
    /\ KeyIdle
    /\ BatchIdle
    /\ CiteIdle
    /\ DownloadIdle
    /\ AccessionIdle
    /\ UpdateIdle
    /\ ServerIdle
    /\ ToolsIdle

NotServerIdle ==
    /\ PipeIdle
    /\ NormIdle
    /\ KeyIdle
    /\ BatchIdle
    /\ CiteIdle
    /\ DownloadIdle
    /\ AccessionIdle
    /\ UpdateIdle
    /\ BulkIdle
    /\ ToolsIdle

NotToolsIdle ==
    /\ PipeIdle
    /\ NormIdle
    /\ KeyIdle
    /\ BatchIdle
    /\ CiteIdle
    /\ DownloadIdle
    /\ AccessionIdle
    /\ UpdateIdle
    /\ BulkIdle
    /\ ServerIdle


(***************************************************************************)
(* extractText (mcp.ts 913-936)                                            *)
(***************************************************************************)
\* The key list with its last key left out.
NonContentKeysShort == {"id", "localId", "SchemaLocation", "REFid", "formaChar"}

NonContentKeys == {"id", "localId", "SchemaLocation", "REFid", "formaChar", "formaInd"}

\* parts.filter(Boolean).join(' ')
RECURSIVE JoinNonEmpty(_)
JoinNonEmpty(parts) ==
    IF parts = <<>> THEN <<>>
    ELSE LET rest == JoinNonEmpty(Tail(parts))
         IN  IF Head(parts) = <<>> THEN rest
             ELSE IF rest = <<>> THEN Head(parts)
             ELSE Head(parts) \o <<" ">> \o rest

RECURSIVE extractText(_)
extractText(node) ==
    CASE node.t = "null" -> <<>>
      [] node.t \in {"str", "num"} -> node.s
      [] node.t = "arr" ->
           JoinNonEmpty([i \in 1..Len(node.kids) |-> extractText(node.kids[i].v)])
      [] node.t = "obj" ->
           IF Prop(node, "Char").t = "str"
           THEN Prop(node, "Char").s
           ELSE LET content == SelectSeq(node.kids, LAMBDA e : e.k \notin NonContentKeys)
                IN  JoinNonEmpty([i \in 1..Len(content) |-> extractText(content[i].v)])

(***************************************************************************)
(* Regular-expression pieces shared by the heading parsers                 *)
(***************************************************************************)
\* The length of the longest run of characters of class `cls` starting at
\* position p of s (0 when p is past the end): a greedy \s* or \d+.
RECURSIVE Run(_, _, _)
Run(s, p, cls) ==
    IF p > Len(s) \/ s[p] \notin cls THEN 0 ELSE 1 + Run(s, p + 1, cls)

WsChars == {" ", Tab, Nbsp}

\* (\d+[a-zA-Z]?) anchored at position p: the captured token, or <<>> when
\* no digit stands at p.
NumToken(s, p) ==
    LET d == Run(s, p, Digits)
    IN  IF d = 0 THEN <<>>
        ELSE IF p + d <= Len(s) /\ s[p + d] \in AsciiLetters
             THEN SubSeq(s, p, p + d)
             ELSE SubSeq(s, p, p + d - 1)

\* Whether the literal `lit` stands at position p of s.
LitAt(s, p, lit) ==
    /\ p + Len(lit) - 1 <= Len(s)
    /\ \A j \in 1..Len(lit) : s[p + j - 1] = lit[j]

\* The same under the i flag: characters are compared lower-cased.
LitAtIgnoreCase(s, p, lit) ==
    /\ p + Len(lit) - 1 <= Len(s)
    /\ \A j \in 1..Len(lit) : LowerChar(s[p + j - 1]) = LowerChar(lit[j])

\* The least element of a non-empty set of positions: the leftmost match.
Least(S) == CHOOSE i \in S : \A j \in S : i <= j

(***************************************************************************)
(* parseSectionFromExplicatus (mcp.ts 938-947)                             *)
(***************************************************************************)
\* A variant of the "§ N" pattern that captures the digits alone, (\d+).
MatchWithSymbolDigitsOnly(t) ==
    LET at == {i \in 1..Len(t) :
                  /\ t[i] = Sect
                  /\ Run(t, i + 1 + Run(t, i + 1, WsChars), Digits) >= 1}
    IN  IF at = {} THEN None
        ELSE LET q == Least(at) + 1 + Run(t, Least(at) + 1, WsChars)
             IN  Some(SubSeq(t, q, q + Run(t, q, Digits) - 1))

\* text.match(/§\s*(\d+[a-zA-Z]?)/u)
MatchWithSymbol(t) ==
    LET at == {i \in 1..Len(t) :
                  /\ t[i] = Sect
                  /\ NumToken(t, i + 1 + Run(t, i + 1, WsChars)) # <<>>}
    IN  IF at = {} THEN None
        ELSE LET i == Least(at)
             IN  Some(NumToken(t, i + 1 + Run(t, i + 1, WsChars)))

\* text.match(/^(\d+[a-zA-Z]?)\.?$/u)
MatchPlain(t) ==
    LET tok == NumToken(t, 1)
        n   == Len(tok)
    IN  IF tok # <<>> /\ (n = Len(t) \/ (n + 1 = Len(t) /\ t[n + 1] = "."))
        THEN Some(tok)
        ELSE None

parseSectionFromExplicatus(explicatus) ==
    LET t == normalizeWhitespace(extractText(explicatus))
    IN  IF t = <<>> THEN None
        ELSE IF MatchWithSymbol(t).some THEN MatchWithSymbol(t)
        ELSE MatchPlain(t)

(***************************************************************************)
(* parseChapter (mcp.ts 949-959)                                           *)
(***************************************************************************)
KapitelWord == <<"k", "a", "p", "i", "t", "e", "l">>

\* text.match(/kapitel\s+(\d+[a-zA-Z]?)/iu)
MatchKapitel(t) ==
    LET at == {i \in 1..Len(t) :
                  /\ LitAtIgnoreCase(t, i, KapitelWord)
                  /\ Run(t, i + 7, WsChars) >= 1
                  /\ NumToken(t, i + 7 + Run(t, i + 7, WsChars)) # <<>>}
    IN  IF at = {} THEN None
        ELSE LET i == Least(at)
             IN  Some(NumToken(t, i + 7 + Run(t, i + 7, WsChars)))

\* typeof localId === 'string' && localId.trim()
NonBlankString(v) == v.t = "str" /\ Trim(v.s) # <<>>

parseChapter(explicatus, localId) ==
    IF NonBlankString(localId) THEN Some(Trim(localId.s))
    ELSE LET t == normalizeWhitespace(extractText(explicatus))
         IN  IF t = <<>> THEN None ELSE MatchKapitel(t)

(***************************************************************************)
(* The section number of a Paragraf (mcp.ts 1113-1116)                     *)
(***************************************************************************)
SectionOf(paragraf) ==
    IF NonBlankString(Prop(paragraf, "localId"))
    THEN Some(Trim(Prop(paragraf, "localId").s))
    ELSE parseSectionFromExplicatus(Prop(paragraf, "Explicatus"))

(***************************************************************************)
(* Section resolution on its own: every Paragraf built from a localId      *)
(* attribute and a heading over a small alphabet.                          *)
(***************************************************************************)
MaxHeadLen == 4

HeadChars == {Sect, " ", "1", "a", "."}

Headings == UNION {[1..n -> HeadChars] : n \in 0..MaxHeadLen}

\* The localId attribute: empty, blank, a number or a padded number (an XML
\* attribute is always a string), or a number-typed child element.
LocalIds ==
    {Str(<<>>), Str(<<" ">>), Str(<<"5">>), Str(<<" ", "7", "a", " ">>), Num(<<"5">>)}

\* An Explicatus is a text element, or an element whose text sits in Char.
ExplicatusOf(h) == {Str(h), Obj(<<Entry("Char", Str(h))>>)}

WithAttr(key, value, entries) ==
    IF value.t = "null" THEN entries ELSE <<Entry(key, value)>> \o entries

\* Headings a localId is combined with: one of each kind.
FewHeadings == {<<>>, <<Sect, " ", "1">>, <<"1", "a", ".">>, <<"a">>}

\* Every heading without a localId, and every localId with a few headings.
SectionInputs ==
    {Obj(<<Entry("Explicatus", ex)>>) : ex \in UNION {ExplicatusOf(h) : h \in Headings}}
      \cup {Obj(WithAttr("localId", lid, <<Entry("Explicatus", Str(h))>>)) :
               lid \in LocalIds, h \in FewHeadings}
      \cup {Obj(<<Entry("localId", lid)>>) : lid \in LocalIds}

InitSection ==
    /\ NotPipeIdle
    /\ root \in SectionInputs
    /\ section = None
    /\ text = <<>>
    /\ emitted = <<>>
    /\ origin = <<>>
    /\ visited = <<>>
    /\ provisions = <<>>
    /\ definitions = <<>>
    /\ pc = "paragraf"

ResolveSection ==
    /\ pc = "paragraf"
    /\ section' = SectionOf(root)
    /\ pc' = "resolved"
    /\ UNCHANGED <<root, text, emitted, origin, visited, provisions, definitions>>
    /\ UNCHANGED notPipeVars

SpecSection == InitSection /\ [][ResolveSection]_vars

(***************************************************************************)
(* C7                                                                      *)
(***************************************************************************)
\* A section token: digits, or digits followed by one ASCII letter.
IsSectionToken(w) ==
    /\ Len(w) >= 1
    /\ \A j \in 1..Len(w) : w[j] \in Digits \/ (j = Len(w) /\ j > 1 /\ w[j] \in AsciiLetters)

\* w is the whole token standing at position p of h: a token that no longer
\* prefix of the text at p extends.
WholeTokenAt(h, p, w) ==
    /\ w = SubSeq(h, p, p + Len(w) - 1)
    /\ p + Len(w) - 1 <= Len(h)
    /\ IsSectionToken(w)
    /\ p + Len(w) <= Len(h) => ~IsSectionToken(SubSeq(h, p, p + Len(w)))

\* Position i of h holds a "§" that is followed, after any spaces, by a digit at q.
SymbolTokenAt(h, i, q) ==
    /\ i \in 1..Len(h) /\ q \in (i + 1)..Len(h)
    /\ h[i] = Sect
    /\ \A j \in (i + 1)..(q - 1) : h[j] = " "
    /\ h[q] \in Digits

HasSymbolToken(h) == \E i, q \in 1..Len(h) : SymbolTokenAt(h, i, q)

HeadingText(paragraf) == normalizeWhitespace(extractText(Prop(paragraf, "Explicatus")))

\* C7: the section number of a Paragraf is its trimmed localId when that is a
\* non-blank string; otherwise it comes from the heading, where the whole
\* token after the first "§ N" wins over a heading that is only "N" or "N.",
\* a letter suffix being kept; a heading with neither gives no section.
C7_SectionResolution ==
    pc = "resolved" =>
        LET lid == Prop(root, "localId")
            h   == HeadingText(root)
        IN  IF lid.t = "str" /\ \E j \in 1..Len(lid.s) : ~IsWs(lid.s[j])
            THEN /\ section.some
                 /\ section.v # <<>>
                 /\ ~IsWs(section.v[1]) /\ ~IsWs(section.v[Len(section.v)])
                 /\ \E a, b \in 0..Len(lid.s) :
                       /\ lid.s = [j \in 1..a |-> lid.s[j]] \o section.v
                                     \o [j \in 1..b |-> lid.s[Len(lid.s) - b + j]]
                       /\ \A j \in 1..a : IsWs(lid.s[j])
                       /\ \A j \in 1..b : IsWs(lid.s[Len(lid.s) - b + j])
            ELSE IF HasSymbolToken(h)
            THEN /\ section.some
                 /\ \E i, q \in 1..Len(h) :
                       /\ SymbolTokenAt(h, i, q)
                       /\ \A i2, q2 \in 1..Len(h) : SymbolTokenAt(h, i2, q2) => i <= i2
                       /\ WholeTokenAt(h, q, section.v)
            ELSE IF \E w \in {h, SubSeq(h, 1, Len(h) - 1)} :
                       /\ WholeTokenAt(h, 1, w)
                       /\ (w = h \/ h[Len(h)] = ".")
            THEN /\ section.some
                 /\ section.v \in {h, SubSeq(h, 1, Len(h) - 1)}
                 /\ WholeTokenAt(h, 1, section.v)
            ELSE ~section.some

\* A heading "§ 1a" (or "§1a") on a Paragraf without a usable localId gave "1a".
C7_Witness ==
    /\ pc = "resolved"
    /\ ~NonBlankString(Prop(root, "localId"))
    /\ HasSymbolToken(HeadingText(root))
    /\ section = Some(<<"1", "a">>)

(***************************************************************************)
(* extractText on its own: scalars, objects of up to MaxEntries entries    *)
(* and short arrays, and those nested once more.  The values of the        *)
(* non-content (attribute) keys are the only texts that hold an "X".       *)
(***************************************************************************)
MaxEntries == 2

TextLeaves == {Str(<<>>), Str(<<"a">>), Num(<<"7">>)}

\* The attributes the elements of a Retsinformation document carry.
AttributeKeys == {"id", "localId", "SchemaLocation", "REFid", "formaChar", "formaInd"}

ContentKeys == {"Char", "Linea"}

\* An attribute is a string; an element may also be named like one.
LeafEntries ==
    {Entry(k, Str(<<"X">>)) : k \in AttributeKeys}
        \cup {Entry("id", Obj(<<Entry("Linea", Str(<<"X">>))>>))}
        \cup {Entry(k, v) : k \in ContentKeys, v \in TextLeaves}

DistinctKeys(entries) ==
    \A i, j \in 1..Len(entries) : i # j => entries[i].k # entries[j].k

FlatObjects ==
    {Obj(es) : es \in {e \in UNION {[1..n -> LeafEntries] : n \in 1..MaxEntries} :
                          DistinctKeys(e)}}

FlatArrays == {Arr(<<a>>) : a \in TextLeaves} \cup {Arr(<<a, b>>) : a, b \in TextLeaves}

FlatNodes == FlatObjects \cup FlatArrays

NestedNodes ==
    {Obj(<<Entry(k, n)>>) : k \in ContentKeys, n \in FlatNodes}
        \cup {Obj(<<Entry(k, Str(<<"X">>)), Entry("Linea", n), Entry("Text", Num(<<"7">>))>>) :
                 k \in {"localId", "formaChar"}, n \in FlatNodes}
        \cup {Arr(<<n, a>>) : n \in FlatNodes, a \in TextLeaves}

TextInputs == TextLeaves \cup {Null} \cup FlatNodes \cup NestedNodes

InitText ==
    /\ NotPipeIdle
    /\ root \in TextInputs
    /\ section = None
    /\ text = <<>>
    /\ emitted = <<>>
    /\ origin = <<>>
    /\ visited = <<>>
    /\ provisions = <<>>
    /\ definitions = <<>>
    /\ pc = "node"

ExtractText ==
    /\ pc = "node"
    /\ text' = extractText(root)
    /\ pc' = "text"
    /\ UNCHANGED <<root, section, emitted, origin, visited, provisions, definitions>>
    /\ UNCHANGED notPipeVars

SpecText == InitText /\ [][ExtractText]_vars

(***************************************************************************)
(* C9                                                                      *)
(***************************************************************************)
RECURSIVE Concat(_)
Concat(seqs) == IF seqs = <<>> THEN <<>> ELSE Head(seqs) \o Concat(Tail(seqs))

\* The texts a node contributes, in traversal order: a scalar is one text, a
\* node with a string Char is that text alone, and nothing under an
\* attribute key counts.
RECURSIVE TextParts(_)
TextParts(node) ==
    IF node.t = "null" THEN <<>>
    ELSE IF node.t \in {"str", "num"} THEN <<node.s>>
    ELSE IF node.t = "obj" /\ \E i \in 1..Len(node.kids) :
                                 node.kids[i].k = "Char" /\ node.kids[i].v.t = "str"
    THEN <<node.kids[CHOOSE i \in 1..Len(node.kids) : node.kids[i].k = "Char"].v.s>>
    ELSE Concat([i \in 1..Len(node.kids) |->
                    IF node.kids[i].k \in AttributeKeys THEN <<>>
                    ELSE TextParts(node.kids[i].v)])

\* The non-empty ones of `parts` with one space between neighbours.
RECURSIVE SpaceJoined(_)
SpaceJoined(parts) ==
    IF parts = <<>> THEN <<>>
    ELSE IF Head(parts) = <<>> THEN SpaceJoined(Tail(parts))
    ELSE IF SpaceJoined(Tail(parts)) = <<>> THEN Head(parts)
    ELSE Head(parts) \o <<" ">> \o SpaceJoined(Tail(parts))

\* C9: extractText returns the Char field alone when the node carries a string
\* Char; otherwise the non-empty texts of its descendants in traversal order,
\* joined by single spaces; and no value of an attribute key (id, localId,
\* SchemaLocation, REFid, formaChar, formaInd), at any depth, is part of it.
C9_ExtractText ==
    pc = "text" =>
        /\ (root.t = "obj" /\ Prop(root, "Char").t = "str") => text = Prop(root, "Char").s
        /\ text = SpaceJoined(TextParts(root))
        /\ \A i \in 1..Len(text) : text[i] # "X"

\* An object without a string Char, holding an attribute and a nested object
\* that holds an attribute too, gave two texts joined by a space.
C9_Witness ==
    /\ pc = "text"
    /\ root.t = "obj"
    /\ Prop(root, "Char").t # "str"
    /\ \E i \in 1..Len(root.kids) : root.kids[i].k \in AttributeKeys
    /\ \E i \in 1..Len(root.kids) :
          /\ root.kids[i].k \notin AttributeKeys
          /\ root.kids[i].v.t = "obj"
          /\ \E j \in 1..Len(root.kids[i].v.kids) : root.kids[i].v.kids[j].k = "formaInd"
    /\ text = <<"a", " ", "7">>

(***************************************************************************)
(* dedupeProvisions (mcp.ts 1079-1090).  The Map is the sequence of its    *)
(* values in insertion order; Map.set on a present key replaces the value  *)
(* in place.                                                               *)
(***************************************************************************)
MapHas(m, ref) == \E i \in 1..Len(m) : m[i].provision_ref = ref

MapIndex(m, ref) == CHOOSE i \in 1..Len(m) : m[i].provision_ref = ref

MapSet(m, p) ==
    IF MapHas(m, p.provision_ref)
    THEN [m EXCEPT ![MapIndex(m, p.provision_ref)] = p]
    ELSE Append(m, p)

\* A step that also replaces an entry of equal length (>= for >).
DedupeStepLastWins(m, p) ==
    IF \/ ~MapHas(m, p.provision_ref)
       \/ Len(p.content) >= Len(m[MapIndex(m, p.provision_ref)].content)
    THEN MapSet(m, p)
    ELSE m

\* A step that never replaces an entry.
DedupeStepFirstWins(m, p) ==
    IF ~MapHas(m, p.provision_ref) THEN MapSet(m, p) ELSE m

DedupeStep(m, p) ==
    IF \/ ~MapHas(m, p.provision_ref)
       \/ Len(p.content) > Len(m[MapIndex(m, p.provision_ref)].content)
    THEN MapSet(m, p)
    ELSE m

RECURSIVE DedupeFrom(_, _, _)
DedupeFrom(ps, i, m) ==
    IF i > Len(ps) THEN m ELSE DedupeFrom(ps, i + 1, DedupeStep(m, ps[i]))

\* The map kept at module level, so that it still holds the entries of the
\* documents deduplicated before.
dedupeProvisionsShared(ps) ==
    DedupeFrom(ps, 1, Concat([d \in 1..Len(ingests) |-> ingests[d].provisions]))

dedupeProvisions(ps) == DedupeFrom(ps, 1, <<>>)

(***************************************************************************)
(* collectProvisions (mcp.ts 1092-1149).  A walk yields the provisions it  *)
(* pushed, in order, with the tree position of the Paragraf each came      *)
(* from, the positions walk() was called on, and whether it threw.  A      *)
(* position is the sequence of entry / item indices leading to the node.   *)
(***************************************************************************)
NoEffect == [prov |-> <<>>, at |-> <<>>, vis |-> <<>>, threw |-> FALSE]

\* A TypeError: reading a property of null or undefined.
Thrown == [prov |-> <<>>, at |-> <<>>, vis |-> <<>>, threw |-> TRUE]

\* r1, then r2 unless r1 threw.
Then(r1, r2) ==
    IF r1.threw THEN r1
    ELSE [prov |-> r1.prov \o r2.prov, at |-> r1.at \o r2.at,
          vis |-> r1.vis \o r2.vis, threw |-> r2.threw]

RECURSIVE ThenAll(_)
ThenAll(rs) == IF rs = <<>> THEN NoEffect ELSE Then(Head(rs), ThenAll(Tail(rs)))

\* asArray (mcp.ts 902-905) of objectNode[key], each item with its position.
asArray(node, path, key) ==
    LET v == Prop(node, key)
        k == KeyIndex(node, key)
    IN  IF v.t = "null" THEN <<>>
        ELSE IF v.t = "arr"
        THEN [j \in 1..Len(v.kids) |-> [n |-> v.kids[j].v, at |-> path \o <<k, j>>]]
        ELSE <<[n |-> v, at |-> path \o <<k>>]>>

\* A ProvisionSeed whose ref always has the "chapter:" part.
ProvisionSeedAlwaysQualified(chapter, sec, title, content) ==
    [provision_ref |-> chapter.v \o <<":">> \o sec,
     chapter |-> chapter,
     section |-> sec,
     title   |-> IF title = <<>> THEN None ELSE Some(title),
     content |-> content]

\* The ProvisionSeed pushed for a Paragraf (mcp.ts 1130-1136).
ProvisionSeed(chapter, sec, title, content) ==
    [provision_ref |-> IF chapter.some /\ chapter.v # <<>>
                       THEN chapter.v \o <<":">> \o sec
                       ELSE sec,
     chapter |-> chapter,
     section |-> sec,
     title   |-> IF title = <<>> THEN None ELSE Some(title),
     content |-> content]

RECURSIVE walk(_, _, _)

\* A Kapitel loop that hands down only the Kapitel's own number, without the
\* `?? chapter` fallback.
WalkKapitelOwnOnly(item, chapter) ==
    IF item.n.t = "null" THEN Thrown
    ELSE walk(item.n, item.at,
              parseChapter(Prop(item.n, "Explicatus"), Prop(item.n, "localId")))

\* One turn of the Kapitel loop (mcp.ts 1107-1110).
WalkKapitel(item, chapter) ==
    IF item.n.t = "null" THEN Thrown
    ELSE LET parsed == parseChapter(Prop(item.n, "Explicatus"), Prop(item.n, "localId"))
         IN  walk(item.n, item.at, IF parsed.some THEN parsed ELSE chapter)

\* A Paragraf loop whose `continue` for an unnumbered Paragraf skips the walk
\* into it.
WalkParagrafNoDescent(item, chapter) ==
    IF item.n.t = "null" THEN Thrown
    ELSE LET sec     == SectionOf(item.n)
             title   == normalizeWhitespace(extractText(Prop(item.n, "Rubrica")))
             content == normalizeWhitespace(extractText(item.n))
         IN  IF ~sec.some \/ sec.v = <<>> THEN NoEffect
             ELSE IF content = <<>> THEN walk(item.n, item.at, chapter)
             ELSE Then([NoEffect EXCEPT
                           !.prov = <<ProvisionSeed(chapter, sec.v, title, content)>>,
                           !.at = <<item.at>>],
                       walk(item.n, item.at, chapter))

\* A Paragraf loop that takes every item for an element and fails on a text
\* or number in its place.
WalkParagrafStrict(item, chapter) ==
    IF item.n.t # "obj" THEN Thrown
    ELSE LET sec     == SectionOf(item.n)
             title   == normalizeWhitespace(extractText(Prop(item.n, "Rubrica")))
             content == normalizeWhitespace(extractText(item.n))
         IN  IF ~sec.some \/ sec.v = <<>> THEN walk(item.n, item.at, chapter)
             ELSE IF content = <<>> THEN walk(item.n, item.at, chapter)
             ELSE Then([NoEffect EXCEPT
                           !.prov = <<ProvisionSeed(chapter, sec.v, title, content)>>,
                           !.at = <<item.at>>],
                       walk(item.n, item.at, chapter))

\* One turn of the Paragraf loop (mcp.ts 1112-1139).
WalkParagraf(item, chapter) ==
    IF item.n.t = "null" THEN Thrown
    ELSE LET sec     == SectionOf(item.n)
             title   == normalizeWhitespace(extractText(Prop(item.n, "Rubrica")))
             content == normalizeWhitespace(extractText(item.n))
         IN  IF ~sec.some \/ sec.v = <<>> THEN walk(item.n, item.at, chapter)
             ELSE IF content = <<>> THEN walk(item.n, item.at, chapter)
             ELSE Then([NoEffect EXCEPT
                           !.prov = <<ProvisionSeed(chapter, sec.v, title, content)>>,
                           !.at = <<item.at>>],
                       walk(item.n, item.at, chapter))

\* A last loop that skips the Kapitel key alone.
OtherKeyButParagraf(key) == key # "Kapitel"

\* The keys the last loop walks (mcp.ts 1141-1144).
OtherKey(key) == key \notin {"Kapitel", "Paragraf"}

walk(node, path, chapter) ==
    LET here == [NoEffect EXCEPT !.vis = <<path>>]
    IN  CASE node.t \in {"null", "str", "num"} -> here
          [] node.t = "arr" ->
               Then(here,
                    ThenAll([j \in 1..Len(node.kids) |->
                                walk(node.kids[j].v, path \o <<j>>, chapter)]))
          [] node.t = "obj" ->
               LET kapitler   == asArray(node, path, "Kapitel")
                   paragraffer == asArray(node, path, "Paragraf")
               IN  Then(here,
                   Then(ThenAll([j \in 1..Len(kapitler) |-> WalkKapitel(kapitler[j], chapter)]),
                   Then(ThenAll([j \in 1..Len(paragraffer) |->
                                    WalkParagraf(paragraffer[j], chapter)]),
                        ThenAll([j \in 1..Len(node.kids) |->
                                    IF OtherKey(node.kids[j].k)
                                    THEN walk(node.kids[j].v, path \o <<j>>, chapter)
                                    ELSE NoEffect]))))

\* walk(root, undefined)
WalkRoot(node) == walk(node, <<>>, None)

(***************************************************************************)
(* extractDefinitions (mcp.ts 1061-1077)                                   *)
(*   /Ved\s+([A-Za-zÆØÅæøå\- ]{2,60})\s+forstås\s+([^\.]+)\./u             *)
(***************************************************************************)
VedWord == <<"V", "e", "d">>

\* The word spelled without its a-ring.
ForstasWord == <<"f", "o", "r", "s", "t", "a", "s">>

ForstaasWord == <<"f", "o", "r", "s", "t", aa, "s">>

\* [A-Za-zÆØÅæøå\- ]
TermChars == AsciiLetters \cup {AE, OE, AA, ae, oe, aa, "-", " "}

MinTermLen == 2
MaxTermLen == 60

Min(a, b) == IF a <= b THEN a ELSE b

Greatest(S) == CHOOSE i \in S : \A j \in S : j <= i

\* The length of the longest run of characters other than "." from p: [^\.]+
RECURSIVE RunNotDot(_, _)
RunNotDot(s, p) ==
    IF p > Len(s) \/ s[p] = "." THEN 0 ELSE 1 + RunNotDot(s, p + 1)

\* The lengths the last \s+ may take at p so that ([^\.]+)\. matches after it.
LastGapChoices(c, p) ==
    {w \in 1..Run(c, p, WsChars) :
        /\ RunNotDot(c, p + w) >= 1
        /\ p + w + RunNotDot(c, p + w) <= Len(c)}

\* \s+forstås\s+([^\.]+)\. anchored at p.  The first \s+ must take its whole
\* run, since a letter has to follow it.
TailMatches(c, p) ==
    /\ Run(c, p, WsChars) >= 1
    /\ LitAt(c, p + Run(c, p, WsChars), ForstaasWord)
    /\ LastGapChoices(c, p + Run(c, p, WsChars) + Len(ForstaasWord)) # {}

\* The lengths the term group may take at q.
TermChoices(c, q) ==
    {n \in MinTermLen..Min(MaxTermLen, Run(c, q, TermChars)) : TailMatches(c, q + n)}

\* The lengths the \s+ after "Ved" may take.
FirstGapChoices(c, i) ==
    {w \in 1..Run(c, i + Len(VedWord), WsChars) :
        TermChoices(c, i + Len(VedWord) + w) # {}}

\* The start positions at which the whole pattern matches.
DefinitionStarts(c) ==
    {i \in 1..Len(c) : LitAt(c, i, VedWord) /\ FirstGapChoices(c, i) # {}}

\* provision.content.match(...): groups 1 and 2 of the leftmost match, every
\* quantifier being greedy, so each takes the longest length that lets the
\* rest match.
DefinitionMatch(c) ==
    IF DefinitionStarts(c) = {} THEN [some |-> FALSE, term |-> <<>>, rest |-> <<>>]
    ELSE LET i == Least(DefinitionStarts(c))
             q == i + Len(VedWord) + Greatest(FirstGapChoices(c, i))
             n == Greatest(TermChoices(c, q))
             p == q + n + Run(c, q + n, WsChars) + Len(ForstaasWord)
             g == p + Greatest(LastGapChoices(c, p))
         IN  [some |-> TRUE,
              term |-> SubSeq(c, q, q + n - 1),
              rest |-> SubSeq(c, g, g + RunNotDot(c, g) - 1)]

\* The loop with the term kept in the case it was written in.
RECURSIVE DefinitionsFromKeepCase(_, _)
DefinitionsFromKeepCase(ps, i) ==
    IF i > Len(ps) THEN <<>>
    ELSE LET sentence == DefinitionMatch(ps[i].content)
         IN  IF ~sentence.some THEN DefinitionsFromKeepCase(ps, i + 1)
             ELSE <<[term |-> normalizeWhitespace(sentence.term),
                     definition |-> normalizeWhitespace(sentence.rest),
                     source_provision |-> ps[i].provision_ref]>>
                      \o DefinitionsFromKeepCase(ps, i + 1)

RECURSIVE DefinitionsFrom(_, _)
DefinitionsFrom(ps, i) ==
    IF i > Len(ps) THEN <<>>
    ELSE LET sentence == DefinitionMatch(ps[i].content)
         IN  IF ~sentence.some THEN DefinitionsFrom(ps, i + 1)
             ELSE <<[term |-> normalizeWhitespace(toLowerCase(sentence.term)),
                     definition |-> normalizeWhitespace(sentence.rest),
                     source_provision |-> ps[i].provision_ref]>>
                      \o DefinitionsFrom(ps, i + 1)

extractDefinitions(ps) == DefinitionsFrom(ps, 1)

(***************************************************************************)
(* The documents of the pipeline: a Dokument with its Meta and a body of   *)
(* Kapitel and Paragraf elements, as the XML parser delivers them (one     *)
(* child is the child itself, several children of one name are an array,   *)
(* an attribute is a string entry ahead of the child elements).            *)
(***************************************************************************)
MaxParagrafs == 2

Opt(key, value) == IF value.t = "null" THEN <<>> ELSE <<Entry(key, value)>>

\* The value of a key holding these child elements.
Children(nodes) ==
    IF Len(nodes) = 0 THEN Null
    ELSE IF Len(nodes) = 1 THEN nodes[1]
    ELSE Arr(nodes)

Paragraf(localId, explicatus, rubrica, stk, nested) ==
    Obj(Opt("localId", localId) \o Opt("Explicatus", explicatus)
          \o Opt("Rubrica", rubrica) \o Opt("Stk", stk) \o Opt("Paragraf", nested))

Heading1 == Str(<<Sect, " ", "1", ".">>)
Heading4 == Str(<<Sect, Nbsp, "4">>)

P1a  == Paragraf(Null, Heading1, Null, Str(<<"a">>), Null)
P1b  == Paragraf(Null, Heading1, Null, Str(<<"b">>), Null)
P1cc == Paragraf(Null, Heading1, Str(<<"r">>), Str(<<"c", "c">>), Null)
P2   == Paragraf(Str(<<" ", "2", " ">>), Null, Null, Str(<<"a">>), Null)
\* A Paragraf without a resolvable number, and one without any text.
PUnnumbered == Paragraf(Null, Str(<<"x">>), Null, Str(<<"a">>), Null)
PEmpty      == Paragraf(Str(<<"3">>), Null, Null, Str(<<" ">>), Null)
\* A text where an element is expected.
PText       == Str(<<Sect, " ", "5">>)
\* Containers: an unnumbered and a numbered Paragraf holding a Paragraf.
PContainer  == Paragraf(Null, Null, Str(<<"r">>), Null, P1a)
PNested     == Paragraf(Null, Heading4, Null, Null, P1b)

ParagrafNodes == {P1a, P1b, P1cc, P2, PUnnumbered, PEmpty, PText, PContainer, PNested}

FewParagrafNodes == {P1a, P1b, P2}

ListsOver(S) == UNION {[1..n -> S] : n \in 0..MaxParagrafs}

\* The ways a Kapitel states its number: a localId; a heading behind a blank
\* localId; a heading with more text around the number; and four that state
\* none (a heading without "kapitel N", "kapitel" without a space or without
\* a number, and a localId that is a number, not a string).
InnerHeads ==
    {<<Entry("localId", Str(<<"7">>))>>,
     <<Entry("localId", Str(<<" ">>)),
       Entry("Explicatus", Str(<<"K", "a", "p", "i", "t", "e", "l", " ", "2", "a">>))>>,
     <<Entry("Explicatus", Str(<<"A", "f", "s", "n", "i", "t">>))>>}

KapitelHeads ==
    InnerHeads \cup
    {<<Entry("Explicatus",
             Obj(<<Entry("Char", Str(<<"I", " ", "K", "A", "P", "I", "T", "E", "L", Nbsp, " ",
                                      "1", "2", "b", "c", " ", "3">>))>>))>>,
     <<Entry("Explicatus", Str(<<"K", "a", "p", "i", "t", "e", "l", "2">>))>>,
     <<Entry("Explicatus", Str(<<"k", "a", "p", "i", "t", "e", "l", " ", "x", "1">>))>>,
     <<Entry("localId", Num(<<"9">>))>>}

Kapitel(head, inner, paragraffer) ==
    Obj(head \o Opt("Kapitel", inner) \o Opt("Paragraf", Children(paragraffer)))

InnerKapitler == {Null} \cup {Kapitel(h, Null, <<P1b>>) : h \in InnerHeads}

KapitelNodes ==
    {Kapitel(h, inner, ps) :
        h \in KapitelHeads, inner \in InnerKapitler, ps \in ListsOver(FewParagrafNodes)}

\* Bodies: Paragraf elements alone; one Kapitel and at most one Paragraf
\* beside it, in either order; two Kapitel side by side; an empty Kapitel
\* element (the parser's empty string) before a Kapitel.
Bodies ==
    {Obj(Opt("Paragraf", Children(ps))) : ps \in ListsOver(ParagrafNodes)}
      \cup {Obj(<<Entry("Kapitel", k)>> \o Opt("Paragraf", p)) :
               k \in KapitelNodes, p \in {Null, P1cc}}
      \cup {Obj(<<Entry("Paragraf", p), Entry("Kapitel", k)>>) :
               k \in KapitelNodes, p \in {P1a, P1cc}}
      \cup {Obj(<<Entry("Kapitel", Arr(<<Kapitel(h1, Null, <<P1a>>), Kapitel(h2, Null, <<P1b>>)>>))>>) :
               h1, h2 \in KapitelHeads}
      \cup {Obj(<<Entry("Kapitel", Arr(<<Str(<<>>), Kapitel(h, Null, <<P1a>>)>>))>>) :
               h \in KapitelHeads}

Meta == Obj(<<Entry("DocumentTitle", Str(<<"t">>)), Entry("Year", Num(<<"2", "0", "1", "8">>))>>)

Docs == {Obj(<<Entry("Meta", Meta), Entry("DokumentIndhold", b)>>) : b \in Bodies}

(***************************************************************************)
(* ingest, from the parsed document on (mcp.ts 1200-1201)                  *)
(***************************************************************************)
Init ==
    /\ NotPipeIdle
    /\ root \in Docs
    /\ section = None
    /\ text = <<>>
    /\ emitted = <<>>
    /\ origin = <<>>
    /\ visited = <<>>
    /\ provisions = <<>>
    /\ definitions = <<>>
    /\ pc = "parsed"

\* const provisions = collectProvisions(documentNode)
Collect ==
    /\ pc = "parsed"
    /\ LET r == WalkRoot(root)
       IN  IF r.threw
           THEN /\ pc' = "failed"
                /\ UNCHANGED <<emitted, origin, visited, provisions>>
           ELSE /\ emitted' = r.prov
                /\ origin' = r.at
                /\ visited' = r.vis
                /\ provisions' = dedupeProvisions(r.prov)
                /\ pc' = "collected"
    /\ UNCHANGED <<root, section, text, definitions>>
    /\ UNCHANGED notPipeVars

\* const definitions = extractDefinitions(provisions)
Define ==
    /\ pc = "collected"
    /\ definitions' = extractDefinitions(provisions)
    /\ pc' = "done"
    /\ UNCHANGED <<root, section, text, emitted, origin, visited, provisions>>
    /\ UNCHANGED notPipeVars

Next == Collect \/ Define

Spec == Init /\ [][Next]_vars

(***************************************************************************)
(* Positions in the document, for the statements about the walk            *)
(***************************************************************************)
RECURSIVE NodeAt(_, _)
NodeAt(node, path) ==
    IF path = <<>> THEN node ELSE NodeAt(node.kids[Head(path)].v, Tail(path))

RECURSIVE PathsOf(_)
PathsOf(node) ==
    {<<>>} \cup UNION {{<<i>> \o q : q \in PathsOf(node.kids[i].v)} : i \in 1..Len(node.kids)}

Front(path) == SubSeq(path, 1, Len(path) - 1)

IsPrefix(p, q) == Len(p) <= Len(q) /\ SubSeq(q, 1, Len(p)) = p

\* The element name a position stands under: the key of its entry, or, for
\* an item of an array, the key the array stands under.
RECURSIVE KeyOf(_)
KeyOf(path) ==
    IF path = <<>> THEN ""
    ELSE IF NodeAt(root, Front(path)).t = "arr" THEN KeyOf(Front(path))
    ELSE NodeAt(root, Front(path)).kids[path[Len(path)]].k

\* The positions of the elements of that name (of each item, not of the array).
ElementsNamed(name) ==
    {p \in PathsOf(root) : p # <<>> /\ KeyOf(p) = name /\ NodeAt(root, p).t # "arr"}

ParagrafPaths == ElementsNamed("Paragraf")

KapitelPaths == ElementsNamed("Kapitel")

\* A Paragraf element that is to become a provision.
Qualifies(p) ==
    /\ SectionOf(NodeAt(root, p)).some
    /\ normalizeWhitespace(extractText(NodeAt(root, p))) # <<>>

Collected == pc \in {"collected", "done"}

EmittedAt(p) == {i \in 1..Len(emitted) : origin[i] = p}

(***************************************************************************)
(* C3                                                                      *)
(***************************************************************************)
\* Position i of h starts "kapitel" (in any case) followed by at least one
\* space and then a digit at q.
KapitelTokenAt(h, i, q) ==
    /\ i \in 1..Len(h) /\ q \in (i + 8)..Len(h)
    /\ \A j \in 1..7 : h[i + j - 1] \in {KapitelWord[j], UpperSeq[CHOOSE n \in 1..26 : LowerSeq[n] = KapitelWord[j]]}
    /\ \A j \in (i + 7)..(q - 1) : h[j] = " "
    /\ h[q] \in Digits

\* w is the identifier the Kapitel element k states for itself.
StatesChapter(k, w) ==
    LET lid == Prop(k, "localId")
        h   == normalizeWhitespace(extractText(Prop(k, "Explicatus")))
    IN  IF lid.t = "str" /\ \E j \in 1..Len(lid.s) : ~IsWs(lid.s[j])
        THEN w = Trim(lid.s)
        ELSE \E i, q \in 1..Len(h) :
                /\ KapitelTokenAt(h, i, q)
                /\ \A i2, q2 \in 1..Len(h) : KapitelTokenAt(h, i2, q2) => i <= i2
                /\ WholeTokenAt(h, q, w)

StatesNoChapter(k) ==
    LET lid == Prop(k, "localId")
        h   == normalizeWhitespace(extractText(Prop(k, "Explicatus")))
    IN  /\ ~(lid.t = "str" /\ \E j \in 1..Len(lid.s) : ~IsWs(lid.s[j]))
        /\ ~\E i, q \in 1..Len(h) : KapitelTokenAt(h, i, q)

\* The Kapitel elements enclosing position p.
Enclosing(p) == {k \in KapitelPaths : IsPrefix(k, p) /\ k # p}

\* C3: every emitted provision carries the identifier stated by the nearest
\* enclosing Kapitel that states one (its trimmed string localId, else the
\* number after "kapitel" in its heading); a Kapitel that states none passes
\* on the chapter around it; outside every such Kapitel there is no chapter.
C3_ChapterOfNearestKapitel ==
    Collected =>
        \A i \in 1..Len(emitted) :
            LET stating == {k \in Enclosing(origin[i]) : ~StatesNoChapter(NodeAt(root, k))}
            IN  IF stating = {}
                THEN ~emitted[i].chapter.some
                ELSE /\ emitted[i].chapter.some
                     /\ \E k \in stating :
                           /\ \A k2 \in stating : Len(k2) <= Len(k)
                           /\ StatesChapter(NodeAt(root, k), emitted[i].chapter.v)

\* A provision under a Kapitel that states no number, itself inside Kapitel 7,
\* carries chapter 7, while a provision beside that Kapitel carries none.
C3_Witness ==
    /\ Collected
    /\ \E i, j \in 1..Len(emitted) :
          /\ emitted[i].chapter = Some(<<"7">>)
          /\ Cardinality(Enclosing(origin[i])) = 2
          /\ \E k \in Enclosing(origin[i]) :
                /\ \A k2 \in Enclosing(origin[i]) : Len(k2) <= Len(k)
                /\ StatesNoChapter(NodeAt(root, k))
          /\ Enclosing(origin[j]) = {}
          /\ ~emitted[j].chapter.some

(***************************************************************************)
(* C4                                                                      *)
(***************************************************************************)
\* C4: before deduplication the walk has emitted exactly one provision for
\* each Paragraf element with a resolvable number and non-empty text and none
\* for anything else, has been called on no position twice, and has emitted
\* no provision with empty content.
C4_OneProvisionPerSection ==
    Collected =>
        /\ \A p \in ParagrafPaths :
              Cardinality(EmittedAt(p)) = IF Qualifies(p) THEN 1 ELSE 0
        /\ \A i \in 1..Len(emitted) : origin[i] \in ParagrafPaths
        /\ \A i, j \in 1..Len(visited) : i # j => visited[i] # visited[j]
        /\ \A i \in 1..Len(emitted) :
              /\ emitted[i].content # <<>>
              /\ emitted[i].content = normalizeWhitespace(extractText(NodeAt(root, origin[i])))

\* Two qualifying Paragraf elements and one without text: two provisions.
C4_Witness ==
    /\ Collected
    /\ Len(emitted) = 2
    /\ Cardinality({p \in ParagrafPaths : Qualifies(p)}) = 2
    /\ \E p \in ParagrafPaths :
          /\ SectionOf(NodeAt(root, p)).some
          /\ ~Qualifies(p)

(***************************************************************************)
(* C5                                                                      *)
(***************************************************************************)
Unnumbered(p) == ~SectionOf(NodeAt(root, p)).some

\* C5: a Paragraf whose number cannot be resolved is not emitted, and every
\* Paragraf beneath it is still walked, and emitted if it qualifies.
C5_UnnumberedIsWalkedNotEmitted ==
    Collected =>
        \A p \in ParagrafPaths :
            Unnumbered(p) =>
                /\ EmittedAt(p) = {}
                /\ \A q \in ParagrafPaths :
                      (IsPrefix(p, q) /\ q # p) =>
                          /\ \E i \in 1..Len(visited) : visited[i] = q
                          /\ Qualifies(q) => EmittedAt(q) # {}

\* An unnumbered Paragraf that is an element (not a bare text) holds a
\* qualifying Paragraf, which was emitted.
C5_Witness ==
    /\ Collected
    /\ \E p, q \in ParagrafPaths :
          /\ Unnumbered(p)
          /\ NodeAt(root, p).t = "obj"
          /\ IsPrefix(p, q) /\ q # p
          /\ Qualifies(q)
          /\ EmittedAt(q) # {}

(***************************************************************************)
(* C6                                                                      *)
(***************************************************************************)
\* A Paragraf element that is malformed: a bare text or a number in place of
\* an element, or an element without a resolvable number or without text.
Malformed(p) == NodeAt(root, p).t # "obj" \/ ~Qualifies(p)

\* C6: collectProvisions ends without throwing, whatever malformed parts the
\* document has; a malformed Paragraf gives no provision of its own, and every
\* well-formed Paragraf of the document still has its provision_ref among the
\* provisions returned.
C6_MalformedPartsAreSkipped ==
    /\ pc # "failed"
    /\ Collected =>
          /\ \A p \in ParagrafPaths : Malformed(p) => EmittedAt(p) = {}
          /\ \A p \in ParagrafPaths :
                ~Malformed(p) =>
                    \E i \in EmittedAt(p), k \in 1..Len(provisions) :
                        /\ provisions[k].provision_ref = emitted[i].provision_ref
                        /\ Len(provisions[k].content) >= Len(emitted[i].content)

\* A document with a text in place of a Paragraf element, followed by a
\* well-formed Paragraf, whose provision was returned.
C6_Witness ==
    /\ Collected
    /\ \E p, q \in ParagrafPaths :
          /\ NodeAt(root, p).t = "str"
          /\ Len(p) = Len(q) /\ Front(p) = Front(q) /\ p[Len(p)] < q[Len(q)]
          /\ ~Malformed(q)
          /\ \E k \in 1..Len(provisions) :
                provisions[k].content = normalizeWhitespace(extractText(NodeAt(root, q)))

(***************************************************************************)
(* C8                                                                      *)
(***************************************************************************)
\* C8: every emitted provision has the section of its Paragraf, and its
\* provision_ref is "<chapter>:<section>" when it has a chapter and
\* "<section>" otherwise; so equal chapter and section give an equal ref.
C8_ProvisionRefForm ==
    Collected =>
        /\ \A i \in 1..Len(emitted) :
              /\ emitted[i].section = SectionOf(NodeAt(root, origin[i])).v
              /\ emitted[i].chapter.some =>
                    emitted[i].provision_ref =
                        emitted[i].chapter.v \o <<":">> \o emitted[i].section
              /\ ~emitted[i].chapter.some =>
                    emitted[i].provision_ref = emitted[i].section
        /\ \A i, j \in 1..Len(emitted) :
              (emitted[i].chapter = emitted[j].chapter
                  /\ emitted[i].section = emitted[j].section)
                  => emitted[i].provision_ref = emitted[j].provision_ref
        /\ \A k \in 1..Len(provisions) :
              provisions[k].provision_ref =
                  IF provisions[k].chapter.some
                  THEN provisions[k].chapter.v \o <<":">> \o provisions[k].section
                  ELSE provisions[k].section

\* One document gave the refs "7:2" (chapter 7, localId 2) and "1" (no chapter).
C8_Witness ==
    /\ Collected
    /\ \E i, j \in 1..Len(emitted) :
          /\ emitted[i].provision_ref = <<"7", ":", "2">>
          /\ emitted[j].provision_ref = <<"1">>
          /\ ~emitted[j].chapter.some

(***************************************************************************)
(* C2                                                                      *)
(***************************************************************************)
\* Lexicographic order of index sequences, a prefix first.
RECURSIVE LexBefore(_, _)
LexBefore(a, b) ==
    IF a = <<>> THEN b # <<>>
    ELSE IF b = <<>> THEN FALSE
    ELSE IF Head(a) # Head(b) THEN Head(a) < Head(b)
    ELSE LexBefore(Tail(a), Tail(b))

\* Document order: an element before its content, children in their order.
DocumentBefore(p, q) == LexBefore(p, q)

\* The order of the walk: at an element, the Kapitel children come first,
\* then the Paragraf children, then the other children in their order.
WalkRank(p) ==
    [d \in 1..Len(p) |->
        LET parent == NodeAt(root, SubSeq(p, 1, d - 1))
        IN  IF parent.t # "obj" THEN p[d]
            ELSE IF parent.kids[p[d]].k = "Kapitel" THEN 0
            ELSE IF parent.kids[p[d]].k = "Paragraf" THEN 1
            ELSE 1 + p[d]]

WalkBefore(p, q) == LexBefore(WalkRank(p), WalkRank(q))

Before(order, p, q) ==
    IF order = "document" THEN DocumentBefore(p, q) ELSE WalkBefore(p, q)

SameRef(ref) == {i \in 1..Len(emitted) : emitted[i].provision_ref = ref}

Longest(ref) ==
    {i \in SameRef(ref) :
        \A j \in SameRef(ref) : Len(emitted[j].content) <= Len(emitted[i].content)}

\* The entry of I that comes first in the given order.
FirstOf(order, I) == CHOOSE i \in I : \A j \in I : j = i \/ Before(order, origin[i], origin[j])

\* Of the entries with one provision_ref, the first among the longest is the
\* one retained, and the retained entries stand in the order in which their
\* provision_ref first occurs.
FirstLongestRetained(order) ==
    /\ \A k \in 1..Len(provisions) :
          provisions[k] = emitted[FirstOf(order, Longest(provisions[k].provision_ref))]
    /\ \A k1, k2 \in 1..Len(provisions) :
          k1 < k2 =>
              Before(order,
                     origin[FirstOf(order, SameRef(provisions[k1].provision_ref))],
                     origin[FirstOf(order, SameRef(provisions[k2].provision_ref))])

\* C2 as claimed: among entries that share a provision_ref and have content
\* of the same, greatest length, the one first in the document is retained,
\* and the retained entries stand in document order of the first occurrence
\* of their provision_ref.
C2_FirstInDocumentRetained == Collected => FirstLongestRetained("document")

\* C2 as amended: the same with the order of the walk (Kapitel children, then
\* Paragraf children, then the other children) in place of document order.
C2_FirstInWalkRetained == Collected => FirstLongestRetained("walk")

\* Two entries share a ref and the greatest content length, differ in
\* content, and the one the walk met first was retained.
C2_Witness ==
    /\ Collected
    /\ \E i, j \in 1..Len(emitted) :
          /\ i < j
          /\ emitted[i].provision_ref = emitted[j].provision_ref
          /\ {i, j} \subseteq Longest(emitted[i].provision_ref)
          /\ emitted[i].content # emitted[j].content
          /\ \E k \in 1..Len(provisions) : provisions[k] = emitted[i]
    /\ Len(provisions) >= 2

(***************************************************************************)
(* dedupeProvisions on its own: every list of up to MaxProvisions entries  *)
(* over two refs and contents of length 1, 1, 2, 10 and 50.                *)
(***************************************************************************)
MaxProvisions == 3

Seed(chapter, sec, content) == ProvisionSeed(chapter, sec, <<>>, content)

SeedContents ==
    {<<"a">>, <<"b">>, <<"c", "c">>, [i \in 1..10 |-> "x"], [i \in 1..50 |-> "y"]}

Seeds ==
    {Seed(ch, <<"1">>, c) : ch \in {None, Some(<<"7">>)}, c \in SeedContents}

InitDedupe ==
    /\ NotPipeIdle
    /\ root = Null
    /\ section = None
    /\ text = <<>>
    /\ emitted \in UNION {[1..n -> Seeds] : n \in 0..MaxProvisions}
    /\ origin = <<>>
    /\ visited = <<>>
    /\ provisions = <<>>
    /\ definitions = <<>>
    /\ pc = "walked"

\* return dedupeProvisions(provisions)
Dedupe ==
    /\ pc = "walked"
    /\ provisions' = dedupeProvisions(emitted)
    /\ pc' = "deduped"
    /\ UNCHANGED <<root, section, text, emitted, origin, visited, definitions>>
    /\ UNCHANGED notPipeVars

SpecDedupe == InitDedupe /\ [][Dedupe]_vars

(***************************************************************************)
(* C1                                                                      *)
(***************************************************************************)
\* C1: for every provision_ref of the input the output holds exactly one
\* entry with that ref, it is one of the input entries, and its content is as
\* long as the longest content of the input entries with that ref; the output
\* holds nothing else.
C1_OnePerRefLongest ==
    pc = "deduped" =>
        /\ \A i \in 1..Len(emitted) :
              LET same == {k \in 1..Len(provisions) :
                              provisions[k].provision_ref = emitted[i].provision_ref}
              IN  /\ Cardinality(same) = 1
                  /\ \A k \in same :
                        /\ \E j \in 1..Len(emitted) : provisions[k] = emitted[j]
                        /\ Len(provisions[k].content) >= Len(emitted[i].content)
        /\ \A k \in 1..Len(provisions) : \E j \in 1..Len(emitted) : provisions[k] = emitted[j]

\* Entries of length 10 and 50 with one ref, the shorter first: the one of
\* length 50 is the entry retained.
C1_Witness ==
    /\ pc = "deduped"
    /\ \E i, j \in 1..Len(emitted) :
          /\ i < j
          /\ emitted[i].provision_ref = emitted[j].provision_ref
          /\ Len(emitted[i].content) = 10
          /\ Len(emitted[j].content) = 50
    /\ \E k \in 1..Len(provisions) : Len(provisions[k].content) = 50
    /\ \A k \in 1..Len(provisions) : Len(provisions[k].content) # 10

(***************************************************************************)
(* extractDefinitions on its own: lists of up to MaxDefProvisions          *)
(* provisions whose contents are a few sentences.                          *)
(***************************************************************************)
MaxDefProvisions == 2

\* "Ved personoplysninger forstås enhver information."
SentencePersonoplysninger ==
    <<"V", "e", "d", " ", "p", "e", "r", "s", "o", "n", "o", "p", "l", "y",
      "s", "n", "i", "n", "g", "e", "r", " ", "f", "o", "r", "s", "t", aa,
      "s", " ", "e", "n", "h", "v", "e", "r", " ", "i", "n", "f", "o", "r",
      "m", "a", "t", "i", "o", "n", ".">>

\* "§ 3. Ved  Den Registrerede forstås<tab>den person, der<nbsp>er identificeret. Stk. 2."
SentenceInProvision ==
    <<Sect, " ", "3", ".", " ", "V", "e", "d", " ", " ", "D", "e", "n", " ",
      "R", "e", "g", "i", "s", "t", "r", "e", "r", "e", "d", "e", " ", "f",
      "o", "r", "s", "t", aa, "s", Tab, "d", "e", "n", " ", "p", "e", "r",
      "s", "o", "n", ",", " ", "d", "e", "r", Nbsp, "e", "r", " ", "i", "d",
      "e", "n", "t", "i", "f", "i", "c", "e", "r", "e", "t", ".", " ", "S",
      "t", "k", ".", " ", "2", ".">>

\* "Ved a forstås b forstås c og d. Ved e forstås f."
SentenceTwice ==
    <<"V", "e", "d", " ", "a", " ", "f", "o", "r", "s", "t", aa, "s", " ",
      "b", " ", "f", "o", "r", "s", "t", aa, "s", " ", "c", " ", "o", "g",
      " ", "d", ".", " ", "V", "e", "d", " ", "e", " ", "f", "o", "r", "s",
      "t", aa, "s", " ", "f", ".">>

\* "Loven gælder for behandling af personoplysninger."
SentenceNoMatch ==
    <<"L", "o", "v", "e", "n", " ", "g", ae, "l", "d", "e", "r", " ", "f",
      "o", "r", " ", "b", "e", "h", "a", "n", "d", "l", "i", "n", "g", " ",
      "a", "f", " ", "p", "e", "r", "s", "o", "n", "o", "p", "l", "y", "s",
      "n", "i", "n", "g", "e", "r", ".">>

\* "Ved behandling forstås enhver aktivitet"
SentenceNoStop ==
    <<"V", "e", "d", " ", "b", "e", "h", "a", "n", "d", "l", "i", "n", "g",
      " ", "f", "o", "r", "s", "t", aa, "s", " ", "e", "n", "h", "v", "e",
      "r", " ", "a", "k", "t", "i", "v", "i", "t", "e", "t">>

\* "Ved x forstås y."
SentenceShortTerm ==
    <<"V", "e", "d", " ", "x", " ", "f", "o", "r", "s", "t", aa, "s", " ",
      "y", ".">>

\* "Ved  D  Æ forstås y."
SentenceWideTerm ==
    <<"V", "e", "d", " ", " ", "D", " ", " ", AE, " ", "f", "o", "r", "s",
      "t", aa, "s", " ", "y", ".">>

DefContents ==
    {SentencePersonoplysninger, SentenceInProvision, SentenceTwice,
     SentenceNoMatch, SentenceNoStop, SentenceShortTerm, SentenceWideTerm}

DefSeeds ==
    {Seed(ch, <<"3">>, c) : ch \in {None, Some(<<"1">>)}, c \in DefContents}

InitDefine ==
    /\ NotPipeIdle
    /\ root = Null
    /\ section = None
    /\ text = <<>>
    /\ emitted = <<>>
    /\ origin = <<>>
    /\ visited = <<>>
    /\ provisions \in UNION {[1..n -> DefSeeds] : n \in 1..MaxDefProvisions}
    /\ definitions = <<>>
    /\ pc = "collected"

SpecDefine == InitDefine /\ [][Define]_vars

(***************************************************************************)
(* C10                                                                     *)
(***************************************************************************)
TermPersonoplysninger ==
    <<"p", "e", "r", "s", "o", "n", "o", "p", "l", "y", "s", "n", "i", "n", "g", "e", "r">>

EnhverInformation ==
    <<"e", "n", "h", "v", "e", "r", " ", "i", "n", "f", "o", "r", "m", "a", "t", "i", "o", "n">>

OnlyPersonoplysninger ==
    /\ pc = "done"
    /\ \A k \in 1..Len(provisions) : provisions[k].content = SentencePersonoplysninger

\* C10 as claimed: a provision with ref r and the content "Ved
\* personoplysninger forstås enhver information." yields exactly one
\* definition, with term "personoplysninger", definition "enhver
\* information." (the full stop included) and source_provision r.
C10_DefinitionWithFullStop ==
    OnlyPersonoplysninger =>
        definitions = [k \in 1..Len(provisions) |->
                          [term |-> TermPersonoplysninger,
                           definition |-> EnhverInformation \o <<".">>,
                           source_provision |-> provisions[k].provision_ref]]

\* C10 as amended: the definition is "enhver information", the text after
\* "forstås" up to but not including the full stop.
C10_DefinitionWithoutFullStop ==
    OnlyPersonoplysninger =>
        definitions = [k \in 1..Len(provisions) |->
                          [term |-> TermPersonoplysninger,
                           definition |-> EnhverInformation,
                           source_provision |-> provisions[k].provision_ref]]

\* A single provision "1:3" with that content gave its one definition.
C10_Witness ==
    /\ OnlyPersonoplysninger
    /\ Len(provisions) = 1
    /\ provisions[1].provision_ref = <<"1", ":", "3">>
    /\ Len(definitions) = 1
    /\ definitions[1].source_provision = <<"1", ":", "3">>

(***************************************************************************)
(* C11                                                                     *)
(***************************************************************************)
\* The contents in which the pattern "Ved X forstås Y." does not occur: no
\* "Ved", no full stop after the definition, a term of one letter.
NoSentence == {SentenceNoMatch, SentenceNoStop, SentenceShortTerm}

\* The positions of the provisions that hold a definition sentence, in order.
RECURSIVE Defining(_, _)
Defining(ps, i) ==
    IF i > Len(ps) THEN <<>>
    ELSE (IF ps[i].content \in NoSentence THEN <<>> ELSE <<i>>) \o Defining(ps, i + 1)

UpperChars == {UpperSeq[i] : i \in 1..Len(UpperSeq)}

\* Lower-cased and whitespace-normalized: no capital letter, no whitespace
\* other than single spaces between two other characters.
LowerCasedNormalized(t) ==
    /\ \A i \in 1..Len(t) : t[i] \notin UpperChars \cup {Tab, Nbsp}
    /\ t # <<>> => t[1] # " " /\ t[Len(t)] # " "
    /\ \A i \in 1..Len(t) - 1 : ~(t[i] = " " /\ t[i + 1] = " ")

\* C11: extractDefinitions returns normally on every list of provisions; a
\* provision whose content holds no "Ved X forstås Y." sentence contributes
\* nothing and every other provision contributes exactly one definition, in
\* the order of the provisions; each definition's source_provision is the
\* provision_ref of its provision and its term is lower-cased and
\* whitespace-normalized.
C11_OneDefinitionPerMatchingProvision ==
    pc = "done" =>
        LET from == Defining(provisions, 1)
        IN  /\ Len(definitions) = Len(from)
            /\ Len(definitions) <= Len(provisions)
            /\ \A k \in 1..Len(definitions) :
                  /\ definitions[k].source_provision = provisions[from[k]].provision_ref
                  /\ LowerCasedNormalized(definitions[k].term)
                  /\ definitions[k].term # <<>>

\* A provision without a sentence and the provision "1:3" with "Ved  Den
\* Registrerede forstås ...": one definition, its term "den registrerede".
C11_Witness ==
    /\ pc = "done"
    /\ Len(provisions) = 2
    /\ provisions[1].content = SentenceNoMatch
    /\ provisions[2].content = SentenceInProvision
    /\ provisions[2].provision_ref = <<"1", ":", "3">>
    /\ Len(definitions) = 1
    /\ definitions[1].source_provision = <<"1", ":", "3">>
    /\ definitions[1].term =
          <<"d", "e", "n", " ", "r", "e", "g", "i", "s", "t", "r", "e", "r", "e", "d", "e">>

(***************************************************************************)
(* normalizeWhitespace on its own: every text of up to MaxTextLen          *)
(* characters over spaces, tabs, no-break spaces, a letter and the         *)
(* combining ring, normalized MaxPasses times in a row.                    *)
(***************************************************************************)
MaxTextLen == 5

MaxPasses == 2

NormChars == {" ", Tab, Nbsp, "a", Ring}

Texts == UNION {[1..n -> NormChars] : n \in 0..MaxTextLen}

InitNormalize ==
    /\ NotNormIdle
    /\ raw \in Texts
    /\ normal = <<>>
    /\ pc = "text"

\* normalizeWhitespace(text), the text being the raw one or, as for the parts
\* of a content that was normalized before (mcp.ts 1068-1069), a result.
Normalize ==
    /\ pc = "text"
    /\ Len(normal) < MaxPasses
    /\ normal' = Append(normal, normalizeWhitespace(IF normal = <<>> THEN raw
                                                    ELSE normal[Len(normal)]))
    /\ UNCHANGED <<raw, pc>>
    /\ UNCHANGED notNormVars

SpecNormalize == InitNormalize /\ [][Normalize]_vars

(***************************************************************************)
(* C12                                                                     *)
(***************************************************************************)
\* C12: normalizing a normalized text changes nothing: every later result
\* equals the first one.
C12_NormalizeIdempotent ==
    \A i \in 1..Len(normal) : normal[i] = normal[1]

\* "a<ring><tab><nbsp> a" normalized twice: "å a" both times.
C12_Witness ==
    /\ raw = <<"a", Ring, Tab, Nbsp, "a">>
    /\ normal = <<(<<aa, " ", "a">>), (<<aa, " ", "a">>)>>

(***************************************************************************)
(* C13                                                                     *)
(***************************************************************************)
\* The maximal runs of non-whitespace characters of s from position i on,
\* cur being the run under way.
RECURSIVE WordsFrom(_, _, _)
WordsFrom(s, i, cur) ==
    IF i > Len(s) THEN (IF cur = <<>> THEN <<>> ELSE <<cur>>)
    ELSE IF s[i] \in {" ", Tab, Nbsp}
         THEN (IF cur = <<>> THEN <<>> ELSE <<cur>>) \o WordsFrom(s, i + 1, <<>>)
         ELSE WordsFrom(s, i + 1, Append(cur, s[i]))

Words(s) == WordsFrom(s, 1, <<>>)

\* A precomposed letter written as its base letter and the combining ring.
RECURSIVE Decomposed(_)
Decomposed(s) ==
    IF s = <<>> THEN <<>>
    ELSE (IF Head(s) = aa THEN <<"a", Ring>>
          ELSE IF Head(s) = AA THEN <<"A", Ring>>
          ELSE <<Head(s)>>) \o Decomposed(Tail(s))

\* C13: the result has no whitespace at either end, no tab or no-break
\* space and no two whitespace characters in a row; it is the words of the
\* text joined by single spaces (up to canonical composition), so a text
\* without words, the empty one included, gives the empty string.
C13_NormalizeShape ==
    normal # <<>> =>
        LET t == normal[1]
        IN  /\ \A i \in 1..Len(t) : t[i] \notin {Tab, Nbsp}
            /\ t # <<>> => t[1] # " " /\ t[Len(t)] # " "
            /\ \A i \in 1..Len(t) - 1 : ~(t[i] = " " /\ t[i + 1] = " ")
            /\ Decomposed(t) = SpaceJoined(Words(raw))
            /\ (\A i \in 1..Len(raw) : raw[i] \in {" ", Tab, Nbsp}) => t = <<>>

\* "<nbsp>a<tab> a " gives "a a".
C13_Witness ==
    /\ raw = <<Nbsp, "a", Tab, " ", "a">>
    /\ normal # <<>>
    /\ normal[1] = <<"a", " ", "a">>

(***************************************************************************)
(* toAsciiKey on its own: every text of up to MaxKeyLen characters over    *)
(* letters of both cases, a digit, the underscore, U+00E6, the letter with *)
(* a ring in both its forms and the superscript two.                       *)
(***************************************************************************)
MaxKeyLen == 4

KeyChars == {"a", "B", "1", "_", ae, aa, Ring, Sup2}

KeyInputs == UNION {[1..n -> KeyChars] : n \in 0..MaxKeyLen}

InitKey ==
    /\ NotKeyIdle
    /\ input \in KeyInputs
    /\ asciiKey = <<>>
    /\ pc = "input"

\* toAsciiKey(input)
AsciiKey ==
    /\ pc = "input"
    /\ asciiKey' = toAsciiKey(input)
    /\ pc' = "key"
    /\ UNCHANGED input
    /\ UNCHANGED notKeyVars

SpecKey == InitKey /\ [][AsciiKey]_vars

(***************************************************************************)
(* C14                                                                     *)
(***************************************************************************)
AsciiAlnum == AsciiLetters \cup Digits

\* The maximal runs of A-Z, a-z, 0-9 of s from position i on.
RECURSIVE AlnumWordsFrom(_, _, _)
AlnumWordsFrom(s, i, cur) ==
    IF i > Len(s) THEN (IF cur = <<>> THEN <<>> ELSE <<cur>>)
    ELSE IF s[i] \notin AsciiAlnum
         THEN (IF cur = <<>> THEN <<>> ELSE <<cur>>) \o AlnumWordsFrom(s, i + 1, <<>>)
         ELSE AlnumWordsFrom(s, i + 1, Append(cur, s[i]))

RECURSIVE UnderscoreJoined(_)
UnderscoreJoined(parts) ==
    IF parts = <<>> THEN <<>>
    ELSE IF Tail(parts) = <<>> THEN Head(parts)
    ELSE Head(parts) \o <<"_">> \o UnderscoreJoined(Tail(parts))

LowerAlnum == {LowerSeq[i] : i \in 1..26} \cup Digits

\* Only a-z, 0-9 and underscore; no underscore at either end, none doubled.
KeyShape(k) ==
    /\ \A i \in 1..Len(k) : k[i] \in LowerAlnum \cup {"_"}
    /\ k # <<>> => k[1] # "_" /\ k[Len(k)] # "_"
    /\ \A i \in 1..Len(k) - 1 : ~(k[i] = "_" /\ k[i + 1] = "_")

\* The key made of the alphanumeric runs of s, lower-cased, with one
\* underscore for what stands between two of them.
KeyOfRuns(s) == toLowerCase(UnderscoreJoined(AlnumWordsFrom(s, 1, <<>>)))

\* The text with its compatibility forms spelled out and its combining marks
\* dropped: U+00E5 is "a", U+00B2 is "2", the combining ring is nothing.
RECURSIVE Unmarked(_)
Unmarked(s) ==
    IF s = <<>> THEN <<>>
    ELSE (IF Head(s) = aa THEN <<"a">>
          ELSE IF Head(s) = AA THEN <<"A">>
          ELSE IF Head(s) = Sup2 THEN <<"2">>
          ELSE IF Head(s) = Nbsp THEN <<" ">>
          ELSE IF Head(s) = Ring THEN <<>>
          ELSE <<Head(s)>>) \o Unmarked(Tail(s))

\* C14 as claimed: the key has the shape above and every maximal run of
\* characters of the input other than A-Z, a-z, 0-9 that stands between
\* alphanumerics is one underscore in it.
C14_RunsOfInputBecomeUnderscores ==
    pc = "key" => KeyShape(asciiKey) /\ asciiKey = KeyOfRuns(input)

\* C14 as amended: the same of the input once compatibility-decomposed and
\* rid of its combining marks, so that a letter with a diacritic counts as
\* its base letter and a combining mark as nothing.
C14_RunsOfUnmarkedInputBecomeUnderscores ==
    pc = "key" => KeyShape(asciiKey) /\ asciiKey = KeyOfRuns(Unmarked(input))

\* "å_æB" gives "a_b".
C14_Witness ==
    /\ pc = "key"
    /\ input = <<aa, "_", ae, "B">>
    /\ asciiKey = <<"a", "_", "b">>

(***************************************************************************)
(* Several documents side by side: MaxIngests calls of ingest, each at its *)
(* own point between parsing and writing (mcp.ts 1200-1201), taking their  *)
(* steps in any order.  The documents share the ref "1" with contents of   *)
(* different lengths, and one holds a definition.                          *)
(***************************************************************************)
MaxIngests == 2

PDef == Paragraf(Str(<<"3">>), Null, Null, Str(SentencePersonoplysninger), Null)

DocOf(ps) ==
    Obj(<<Entry("Meta", Meta),
          Entry("DokumentIndhold", Obj(Opt("Paragraf", Children(ps))))>>)

BatchDocs ==
    {DocOf(<<>>), DocOf(<<P1a>>), DocOf(<<P1cc>>), DocOf(<<P1a, P1cc>>),
     DocOf(<<P1cc, PDef>>), DocOf(<<PDef, P1a>>)}

\* One call of ingest that has parsed its document.
Parsed(doc) ==
    [given |-> doc, documentNode |-> doc, emitted |-> <<>>, provisions |-> <<>>,
     definitions |-> <<>>, at |-> "parsed"]

InitBatch ==
    /\ NotBatchIdle
    /\ ingests \in {[d \in 1..MaxIngests |-> Parsed(docs[d])] :
                       docs \in [1..MaxIngests -> BatchDocs]}
    /\ pc = "batch"

\* const provisions = collectProvisions(documentNode), in the call d
CollectOf(d) ==
    /\ ingests[d].at = "parsed"
    /\ LET r == WalkRoot(ingests[d].documentNode)
       IN  ingests' = [ingests EXCEPT ![d] =
              IF r.threw THEN [@ EXCEPT !.at = "failed"]
              ELSE [@ EXCEPT !.emitted = r.prov,
                             !.provisions = dedupeProvisions(r.prov),
                             !.at = "collected"]]
    /\ UNCHANGED pc
    /\ UNCHANGED notBatchVars

\* const definitions = extractDefinitions(provisions), in the call d
DefineOf(d) ==
    /\ ingests[d].at = "collected"
    /\ ingests' = [ingests EXCEPT ![d] =
          [@ EXCEPT !.definitions = extractDefinitions(ingests[d].provisions),
                    !.at = "done"]]
    /\ UNCHANGED pc
    /\ UNCHANGED notBatchVars

NextBatch ==
    \/ \E d \in 1..MaxIngests : CollectOf(d)
    \/ \E d \in 1..MaxIngests : DefineOf(d)

SpecBatch == InitBatch /\ [][NextBatch]_vars

(***************************************************************************)
(* C15                                                                     *)
(***************************************************************************)
RefsOf(ps) == {ps[i].provision_ref : i \in 1..Len(ps)}

\* C15: whatever the other calls have done so far, a call leaves its
\* document as it was given; its provisions are entries of its own walk, one
\* for each ref of that walk; its definitions stem from its own provisions;
\* and two calls given the same document have the same provisions and the
\* same definitions once both have them.
C15_DocumentsAreIndependent ==
    \A d \in 1..Len(ingests) :
        LET c == ingests[d]
        IN  /\ c.documentNode = c.given
            /\ c.at \in {"collected", "done"} =>
                  /\ \A i \in 1..Len(c.provisions) :
                        \E j \in 1..Len(c.emitted) : c.provisions[i] = c.emitted[j]
                  /\ RefsOf(c.provisions) = RefsOf(c.emitted)
                  /\ Len(c.provisions) = Cardinality(RefsOf(c.emitted))
            /\ c.at = "done" =>
                  \A k \in 1..Len(c.definitions) :
                      c.definitions[k].source_provision \in RefsOf(c.provisions)
            /\ \A e \in 1..Len(ingests) :
                  ingests[e].given = c.given =>
                      /\ (c.at \in {"collected", "done"} /\ ingests[e].at \in {"collected", "done"})
                             => ingests[e].provisions = c.provisions
                      /\ (c.at = "done" /\ ingests[e].at = "done")
                             => ingests[e].definitions = c.definitions

\* Two calls done, the second one's document holding a longer "1" and a
\* definition: the first keeps its own shorter "1" and has no definition,
\* whichever of the two collected first.
C15_Witness ==
    /\ Len(ingests) >= 2
    /\ ingests[1].given = DocOf(<<P1a>>)
    /\ ingests[2].given = DocOf(<<P1cc, PDef>>)
    /\ ingests[1].at = "done"
    /\ ingests[2].at = "done"
    /\ Len(ingests[1].provisions) = 1
    /\ Len(ingests[1].provisions[1].content) < Len(ingests[2].provisions[1].content)
    /\ ingests[1].provisions[1].provision_ref = ingests[2].provisions[1].provision_ref
    /\ ingests[1].definitions = <<>>
    /\ Len(ingests[2].definitions) = 1

(***************************************************************************)
(* Citations (format_citation, mcp.ts 290-301 and 424-426).  The tool      *)
(* parses its `citation` argument and renders it; the parser and the       *)
(* formatter follow the citation grammar and the output styles:            *)
(*   citation      := doc_id WS section_part [WS pinpoint_part]            *)
(*   doc_id        := YEAR ":" NUMBER | EU_TYPE ":" YEAR "/" NUMBER        *)
(*                    | SHORT_NAME                                         *)
(*   section_part  := ["§"] SECTION_TOKEN      SECTION_TOKEN = digits      *)
(*                    [letter], the letter also after a space ("5 a")      *)
(*   pinpoint_part := "stk." digits                                        *)
(*   chapter_part  := digits ":" SECTION_TOKEN                             *)
(*   full          := "<doc_id> § <section>[, stk. <pinpoint>]"            *)
(***************************************************************************)
\* The character of s at p, or "" past its end.
At(s, p) == IF p \in 1..Len(s) THEN s[p] ELSE ""

LowerLetters == {LowerSeq[i] : i \in 1..26}

CitationChars == AsciiLetters \cup Digits \cup {":", "/", ",", ".", " ", Sect}

StkWord == <<"s", "t", "k", ".">>

\* YEAR ":" NUMBER | EU_TYPE ":" YEAR "/" NUMBER | SHORT_NAME
IsDocumentId(tok) ==
    \/ /\ Run(tok, 1, Digits) = 4
       /\ At(tok, 5) = ":"
       /\ Run(tok, 6, Digits) >= 1
       /\ 5 + Run(tok, 6, Digits) = Len(tok)
    \/ LET l == Run(tok, 1, AsciiLetters)
       IN  /\ l >= 1
           /\ At(tok, l + 1) = ":"
           /\ Run(tok, l + 2, Digits) = 4
           /\ At(tok, l + 6) = "/"
           /\ Run(tok, l + 7, Digits) >= 1
           /\ l + 6 + Run(tok, l + 7, Digits) = Len(tok)
    \/ /\ tok # <<>>
       /\ Run(tok, 1, AsciiLetters) = Len(tok)

ParseError == [ok |-> FALSE, document_id |-> <<>>, chapter |-> None,
               section |-> <<>>, pinpoint |-> None]

StructuredCitation(document_id, chapter, sec, pinpoint) ==
    [ok |-> TRUE, document_id |-> document_id, chapter |-> chapter,
     section |-> sec, pinpoint |-> pinpoint]

\* [WS pinpoint_part] up to the end of the string, from position r; a comma
\* may close the section part ("§ 3, stk. 5").
ParsePinpoint(s, r, document_id, chapter, sec) ==
    IF r > Len(s) THEN StructuredCitation(document_id, chapter, sec, None)
    ELSE LET c == IF At(s, r) = "," THEN r + 1 ELSE r
             w == c + Run(s, c, {" "})
             d == w + Len(StkWord) + Run(s, w + Len(StkWord), {" "})
         IN  IF /\ w > c
                /\ LitAt(s, w, StkWord)
                /\ Run(s, d, Digits) >= 1
                /\ d + Run(s, d, Digits) = Len(s) + 1
             THEN StructuredCitation(document_id, chapter, sec, Some(SubSeq(s, d, Len(s))))
             ELSE ParseError

\* SECTION_TOKEN from position q: digits, then a letter at once or after one
\* space, the letter standing alone ("5 a", not "5 stk").
ParseSectionToken(s, q, document_id, chapter) ==
    LET n == Run(s, q, Digits)
        e == q + n
        alone(p) == At(s, p) \in LowerLetters /\ At(s, p + 1) \in {"", ",", " "}
    IN  IF n = 0 THEN ParseError
        ELSE IF alone(e)
             THEN ParsePinpoint(s, e + 1, document_id, chapter, SubSeq(s, q, e))
        ELSE IF At(s, e) = " " /\ alone(e + 1)
             THEN ParsePinpoint(s, e + 2, document_id, chapter, SubSeq(s, q, e + 1))
        ELSE ParsePinpoint(s, e, document_id, chapter, SubSeq(s, q, e - 1))

\* parse: the document id is the first word; after the whitespace comes the
\* compact chapter part or the section part, the "§" winning over a bare
\* number, then the pinpoint.
parseCitation(s) ==
    LET t == Run(s, 1, CitationChars \ {" "})
        document_id == SubSeq(s, 1, t)
        p == t + 1 + Run(s, t + 1, {" "})
        c == Run(s, p, Digits)
    IN  IF ~IsDocumentId(document_id) \/ p = t + 1 THEN ParseError
        ELSE IF At(s, p) = Sect
             THEN ParseSectionToken(s, p + 1 + Run(s, p + 1, {" "}), document_id, None)
        ELSE IF c >= 1 /\ At(s, p + c) = ":"
             THEN ParseSectionToken(s, p + c + 1, document_id, Some(SubSeq(s, p, p + c - 1)))
        ELSE ParseSectionToken(s, p, document_id, None)

\* format(c, "full"): "<doc_id> § <section>[, stk. <pinpoint>]"
formatFull(c) ==
    c.document_id \o <<" ", Sect, " ">> \o c.section
      \o (IF c.pinpoint.some THEN <<",", " ">> \o StkWord \o <<" ">> \o c.pinpoint.v
          ELSE <<>>)

\* The citation strings handed to the tool: a document id of each of the
\* three shapes, a section part of each form, with and without a pinpoint;
\* and strings the grammar does not accept.
DocumentIds ==
    {<<"2", "0", "1", "8", ":", "5", "0", "2">>,
     <<"r", "e", "g", "u", "l", "a", "t", "i", "o", "n", ":", "2", "0", "1", "6", "/", "6", "7", "9">>,
     <<"G", "R", "L">>}

SectionParts ==
    {<<Sect, " ", "5">>, <<"5">>, <<Sect, " ", "5", " ", "a">>, <<Sect, "5", "a">>,
     <<Sect, " ", "1", "2">>, <<"3", ":", "5">>, <<"3", ":", "5", " ", "a">>}

PinpointParts ==
    {<<>>, <<",", " ", "s", "t", "k", ".", " ", "2">>, <<" ", "s", "t", "k", ".", "2">>}

WellFormedCitations ==
    {d \o <<" ">> \o sp \o pp : d \in DocumentIds, sp \in SectionParts, pp \in PinpointParts}

MalformedCitations ==
    {<<>>,
     <<"k", "a", "p", "3">>,
     <<Sect, " ", "5">>,
     <<"3", ":", "5">>,
     <<"2", "0", "1", "8", ":", "5", "0", "2">>,
     <<"2", "0", "1", "8", ":", "5", "0", "2", " ", "3", ":">>,
     <<"2", "0", "1", "8", ":", "5", "0", "2", " ", Sect, " ", "5", ",", " ", "s", "t", "k", ".">>}

InitCitation ==
    /\ NotCiteIdle
    /\ citation \in WellFormedCitations \cup MalformedCitations
    /\ structured = <<>>
    /\ formatted = <<>>
    /\ reparsed = <<>>
    /\ store = <<>>
    /\ asOfDate = 0
    /\ validation = <<>>
    /\ pc = "citation"

\* case 'format_citation': the citation is parsed and, unless that fails,
\* rendered in the default style, "full".
FormatCitation ==
    /\ pc = "citation"
    /\ structured' = parseCitation(citation)
    /\ IF structured'.ok
       THEN formatted' = formatFull(structured') /\ pc' = "formatted"
       ELSE formatted' = formatted /\ pc' = "rejected"
    /\ UNCHANGED <<citation, reparsed, store, asOfDate, validation>>
    /\ UNCHANGED notCiteVars

\* The rendered string handed back to the parser.
ParseFormatted ==
    /\ pc = "formatted"
    /\ reparsed' = parseCitation(formatted)
    /\ pc' = "reparsed"
    /\ UNCHANGED <<citation, structured, formatted, store, asOfDate, validation>>
    /\ UNCHANGED notCiteVars

NextCitation == FormatCitation \/ ParseFormatted

SpecCitation == InitCitation /\ [][NextCitation]_vars

(***************************************************************************)
(* C16                                                                     *)
(***************************************************************************)
\* C16: for every citation string the parser accepts, the string rendered in
\* the "full" style parses, and to the same document id, chapter, section
\* and pinpoint.
C16_RoundTrip ==
    pc = "reparsed" =>
        /\ reparsed.ok
        /\ reparsed.document_id = structured.document_id
        /\ reparsed.chapter = structured.chapter
        /\ reparsed.section = structured.section
        /\ reparsed.pinpoint = structured.pinpoint

\* What does hold: the round trip keeps the document id, the section and the
\* pinpoint, and a citation without a chapter comes back whole.
RoundTripKeepsAllButChapter ==
    pc = "reparsed" =>
        /\ reparsed.ok
        /\ reparsed.document_id = structured.document_id
        /\ reparsed.section = structured.section
        /\ reparsed.pinpoint = structured.pinpoint
        /\ ~reparsed.chapter.some

(***************************************************************************)
(* validate_citation (mcp.ts 263-273 and 418-420): the citation is parsed  *)
(* and checked against the database through the provision lookup, which    *)
(* tells whether a document exists, whether it holds a provision ref, and  *)
(* its in-force window.                                                    *)
(***************************************************************************)
NoDate == 0

\* ProvisionRef: "chapter:section" with a chapter, else the section.
ProvisionRef(c) ==
    IF c.chapter.some THEN c.chapter.v \o <<":">> \o c.section ELSE c.section

\* lookup(documentId, provisionRef?, asOfDate?)
lookup(st, documentId, provisionRef, date) ==
    IF documentId \notin DOMAIN st
    THEN [exists |-> FALSE, provisionExists |-> FALSE, inForce |-> FALSE]
    ELSE [exists |-> TRUE,
          provisionExists |-> provisionRef \in st[documentId].refs,
          inForce |-> date = NoDate
                        \/ (st[documentId].from <= date /\ date <= st[documentId].to)]

ValidationResult(matched, warnings, provision) ==
    [matched |-> matched, warnings |-> warnings, provision |-> provision]

\* A validator that takes the document's existence for the provision's.
validateDocumentOnly(c, st, date) ==
    LET found == lookup(st, c.document_id, ProvisionRef(c), date)
    IN  IF ~found.exists
        THEN ValidationResult(FALSE, <<"document not found">>, None)
        ELSE ValidationResult(TRUE, <<>>, Some(ProvisionRef(c)))

\* The validator: document absent, provision absent, or a match; a date
\* outside the in-force window adds a warning and changes nothing else.
validate(c, st, date) ==
    LET found == lookup(st, c.document_id, ProvisionRef(c), date)
        currency == IF found.exists /\ ~found.inForce
                    THEN <<"not in force at the given date">> ELSE <<>>
    IN  IF ~found.exists
        THEN ValidationResult(FALSE, <<"document not found">>, None)
        ELSE IF ~found.provisionExists
        THEN ValidationResult(FALSE, <<"document exists, provision not found">> \o currency,
                              None)
        ELSE ValidationResult(TRUE, currency, Some(ProvisionRef(c)))

\* The databases: each of two documents absent, or present with any of the
\* refs "1", "5" and "3:5" and the in-force window 1..2.
StoreDocumentIds ==
    {<<"2", "0", "1", "8", ":", "5", "0", "2">>, <<"9", "9", "9", "9", ":", "1">>}

StoreRefs == {<<"1">>, <<"5">>, <<"3", ":", "5">>}

StoreDocuments == {[refs |-> r, from |-> 1, to |-> 2] : r \in SUBSET StoreRefs}

Stores == UNION {[D -> StoreDocuments] : D \in SUBSET StoreDocumentIds}

Dates == {NoDate, 1, 3}

CitationsToValidate ==
    {d \o <<" ">> \o sp : d \in StoreDocumentIds,
                          sp \in {<<Sect, " ", "1">>, <<Sect, " ", "5">>, <<"3", ":", "5">>}}
      \cup {<<"k", "a", "p", "3">>}

InitValidate ==
    /\ NotCiteIdle
    /\ citation \in CitationsToValidate
    /\ structured = <<>>
    /\ formatted = <<>>
    /\ reparsed = <<>>
    /\ store \in Stores
    /\ asOfDate \in Dates
    /\ validation = <<>>
    /\ pc = "citation"

\* case 'validate_citation': the citation is parsed and, unless that fails,
\* validated against the database.
ValidateCitation ==
    /\ pc = "citation"
    /\ structured' = parseCitation(citation)
    /\ IF structured'.ok
       THEN validation' = validate(structured', store, asOfDate) /\ pc' = "validated"
       ELSE validation' = validation /\ pc' = "rejected"
    /\ UNCHANGED <<citation, formatted, reparsed, store, asOfDate>>
    /\ UNCHANGED notCiteVars

SpecValidate == InitValidate /\ [][ValidateCitation]_vars

(***************************************************************************)
(* C17                                                                     *)
(***************************************************************************)
Warns(w) == \E i \in 1..Len(validation.warnings) : validation.warnings[i] = w

\* C17: a result says matched only when the database holds the document and,
\* in it, the cited provision ref; for a document the database does not
\* hold the result is unmatched and warns "document not found"; every
\* accepted citation gets a result.
C17_MatchOnlyWhenConfirmed ==
    pc = "validated" =>
        /\ validation.matched =>
              /\ structured.document_id \in DOMAIN store
              /\ ProvisionRef(structured) \in store[structured.document_id].refs
        /\ structured.document_id \notin DOMAIN store =>
              ~validation.matched /\ Warns("document not found")

\* "9999:1 § 1" against the empty database: unmatched, "document not found".
C17_Witness ==
    /\ pc = "validated"
    /\ store = <<>>
    /\ structured.document_id = <<"9", "9", "9", "9", ":", "1">>
    /\ structured.section = <<"1">>
    /\ validation = ValidationResult(FALSE, <<"document not found">>, None)

(***************************************************************************)
(* downloadDatabase (mcp.ts 42-70).  One action per await: the first       *)
(* request, each turn of the redirect loop, the status check that opens    *)
(* the stream, and the end of the pipeline with the rename.  The server's  *)
(* answers are free: any status, with or without a Location, or an error.  *)
(***************************************************************************)
TMP_DB == "/tmp/database.db"

TMP_DB_TMP == "/tmp/database.db.tmp"

MaxRedirects == 5

ReleaseUrl == "github"

\* headers.location: absent (""), or one of two addresses.
Locations == {"", "s3", ReleaseUrl}

\* statusCode: undefined (0) and the values around the tests of the loop.
StatusCodes == {0, 200, 299, 300, 399, 400}

Responses == [statusCode : StatusCodes, location : Locations]

\* The loop test with <= for <.
ShouldFollowOnceMore(r, n) ==
    /\ r.statusCode # 0
    /\ r.statusCode >= 300
    /\ r.statusCode < 400
    /\ r.location # ""
    /\ n <= MaxRedirects

\* The test of the while loop (mcp.ts 49-55).
ShouldFollow(r, n) ==
    /\ r.statusCode # 0
    /\ r.statusCode >= 300
    /\ r.statusCode < 400
    /\ r.location # ""
    /\ n < MaxRedirects

InitDownload ==
    /\ NotDownloadIdle
    /\ response = <<>>
    /\ redirects = 0
    /\ requested = <<>>
    /\ files \in {{}, {TMP_DB_TMP}}
    /\ pc = "start"

\* let response = await httpsGet(url): a response, or the request's error.
HttpsGet ==
    /\ pc = "start"
    /\ requested' = <<ReleaseUrl>>
    /\ \/ \E r \in Responses : response' = r /\ pc' = "responded"
       \/ response' = response /\ pc' = "failed"
    /\ UNCHANGED <<redirects, files>>
    /\ UNCHANGED notDownloadVars

\* response = await httpsGet(response.headers.location); redirects++
FollowRedirect ==
    /\ pc = "responded"
    /\ ShouldFollow(response, redirects)
    /\ requested' = Append(requested, response.location)
    /\ \/ \E r \in Responses :
             response' = r /\ redirects' = redirects + 1 /\ pc' = "responded"
       \/ response' = response /\ redirects' = redirects /\ pc' = "failed"
    /\ UNCHANGED files
    /\ UNCHANGED notDownloadVars

\* The loop is left: any status but 200 throws; else the stream to the
\* temporary file is opened and the pipeline started (mcp.ts 60-68).
OpenStream ==
    /\ pc = "responded"
    /\ ~ShouldFollow(response, redirects)
    /\ IF response.statusCode # 200
       THEN files' = files /\ pc' = "failed"
       ELSE files' = files \cup {TMP_DB_TMP} /\ pc' = "piping"
    /\ UNCHANGED <<response, redirects, requested>>
    /\ UNCHANGED notDownloadVars

\* The pipeline ends: with an error, or well, and then the temporary file is
\* renamed to the database (mcp.ts 68-69).
FinishPipeline ==
    /\ pc = "piping"
    /\ \/ files' = (files \ {TMP_DB_TMP}) \cup {TMP_DB} /\ pc' = "downloaded"
       \/ files' = files /\ pc' = "failed"
    /\ UNCHANGED <<response, redirects, requested>>
    /\ UNCHANGED notDownloadVars

NextDownload == HttpsGet \/ FollowRedirect \/ OpenStream \/ FinishPipeline

SpecDownload == InitDownload /\ [][NextDownload]_vars

(***************************************************************************)
(* C18                                                                     *)
(***************************************************************************)
\* C18: at most 5 redirects are followed and at most 6 requests issued,
\* whatever the server answers; the download goes on to the stream and ends
\* well only with a last response of status 200, and /tmp/database.db
\* exists only once it has ended well.
C18_AtMostFiveRedirects ==
    /\ redirects <= 5
    /\ Len(requested) <= 6
    /\ pc \in {"piping", "downloaded"} => response.statusCode = 200
    /\ TMP_DB \in files => pc = "downloaded"
    /\ pc = "failed" => TMP_DB \notin files

\* A server that always redirects: six requests, five redirects followed,
\* the sixth redirect refused with an error, no database.
C18_Witness ==
    /\ pc = "failed"
    /\ Len(requested) = 6
    /\ redirects = 5
    /\ response.statusCode = 300
    /\ response.location # ""
    /\ TMP_DB \notin files

(***************************************************************************)
(* inferLocalIdFromAccession (mcp.ts 588-603)                              *)
(***************************************************************************)
DigitSeq == <<"0", "1", "2", "3", "4", "5", "6", "7", "8", "9">>

DigitValue(c) == (CHOOSE i \in 1..10 : DigitSeq[i] = c) - 1

\* Number.parseInt(digits, 10) of a non-empty string of digits.
RECURSIVE ParseIntFrom(_, _, _)
ParseIntFrom(ds, i, acc) ==
    IF i > Len(ds) THEN acc ELSE ParseIntFrom(ds, i + 1, acc * 10 + DigitValue(ds[i]))

parseInt(ds) == ParseIntFrom(ds, 1, 0)

\* `${number}` of a non-negative integer.
RECURSIVE NumberToString(_)
NumberToString(n) ==
    IF n < 10 THEN <<DigitSeq[n + 1]>>
    ELSE NumberToString(n \div 10) \o <<DigitSeq[(n % 10) + 1]>>

\* tail.slice(0, -1): one digit dropped for the variant code.
NumberPartLessOne(tail) == SubSeq(tail, 1, Len(tail) - 1)

\* tail.slice(0, -2)
NumberPart(tail) == SubSeq(tail, 1, Len(tail) - 2)

\* accession.match(/^[A-Z](\d{4})(\d+)$/i): the greedy \d+ takes all that
\* follows the year, which must be digits to the end and at least one.
AccessionMatch(a) ==
    /\ Len(a) >= 6
    /\ a[1] \in AsciiLetters
    /\ Run(a, 2, Digits) = Len(a) - 1

inferLocalIdFromAccession(a) ==
    IF ~AccessionMatch(a) THEN None
    ELSE LET year == SubSeq(a, 2, 5)
             tail == SubSeq(a, 6, Len(a))
         IN  IF Len(tail) < 3 THEN None
             ELSE LET number == parseInt(NumberPart(tail))
                  IN  IF number <= 0 THEN None
                      ELSE Some(year \o <<":">> \o NumberToString(number))

(***************************************************************************)
(* inferLocalIdFromAccession on its own: a letter of either case, none or  *)
(* two, or a digit in its place; a year of four digits, of three, or with  *)
(* a letter in it; every tail of up to MaxTailLen digits over 0, 1 and 4,  *)
(* the tail of B20240100405, and one with a letter.                        *)
(***************************************************************************)
MaxTailLen == 4

AccessionHeads == {<<"B">>, <<"b">>, <<>>, <<"1">>, <<"B", "B">>}

AccessionYears == {<<"2", "0", "2", "4">>, <<"0", "2", "4">>, <<"2", "0", "x", "4">>}

AccessionTails ==
    UNION {[1..n -> {"0", "1", "4"}] : n \in 0..MaxTailLen}
      \cup {<<"0", "1", "0", "0", "4", "0", "5">>, <<"1", "0", "a", "5">>}

Accessions == {h \o y \o t : h \in AccessionHeads, y \in AccessionYears, t \in AccessionTails}

InitAccession ==
    /\ NotAccessionIdle
    /\ accession \in Accessions
    /\ inferred = None
    /\ pc = "accession"

\* inferLocalIdFromAccession(accession)
InferLocalId ==
    /\ pc = "accession"
    /\ inferred' = inferLocalIdFromAccession(accession)
    /\ pc' = "inferred"
    /\ UNCHANGED accession
    /\ UNCHANGED notAccessionVars

SpecAccession == InitAccession /\ [][InferLocalId]_vars

(***************************************************************************)
(* C20                                                                     *)
(***************************************************************************)
\* The digits without their leading zeros.
RECURSIVE WithoutLeadingZeros(_)
WithoutLeadingZeros(ds) ==
    IF ds # <<>> /\ Head(ds) = "0" THEN WithoutLeadingZeros(Tail(ds)) ELSE ds

\* C20: an accession that is a letter, a year of four digits and at least
\* three more digits, those before the last two not all zero, gives
\* "year:number", the number being the digits between the year and the last
\* two without leading zeros; every other accession gives null.
C20_LocalIdFromAccession ==
    pc = "inferred" =>
        LET a == accession
            shaped == /\ Len(a) >= 6
                      /\ a[1] \in AsciiLetters
                      /\ \A i \in 2..Len(a) : a[i] \in Digits
            number == WithoutLeadingZeros(SubSeq(a, 6, Len(a) - 2))
        IN  IF shaped /\ Len(a) - 5 >= 3 /\ number # <<>>
            THEN inferred = Some(SubSeq(a, 2, 5) \o <<":">> \o number)
            ELSE inferred = None

\* B20240100405 gives 2024:1004.
C20_Witness ==
    /\ pc = "inferred"
    /\ accession = <<"B", "2", "0", "2", "4", "0", "1", "0", "0", "4", "0", "5">>
    /\ inferred = Some(<<"2", "0", "2", "4", ":", "1", "0", "0", "4">>)

(***************************************************************************)
(* The update checker (mcp.ts 505-813): the statutes of the local database *)
(* are compared with the change feed of the Retsinformation API, the       *)
(* report is printed and the process exits.                                *)
(***************************************************************************)
\* String.prototype.toUpperCase on one character.
UpperChar(c) ==
    IF \E i \in 1..Len(LowerSeq) : LowerSeq[i] = c
    THEN UpperSeq[CHOOSE i \in 1..Len(LowerSeq) : LowerSeq[i] = c]
    ELSE c

toUpperCase(s) == [i \in 1..Len(s) |-> UpperChar(s[i])]

\* parseArgs: the two flags looked for in argv.
parseArgs(flags) ==
    [json          |-> "--json" \in flags,
     failOnUpdates |-> "--fail-on-updates" \in flags]

\* The length of the run of characters other than "/" from position p: [^/]+
RECURSIVE NonSlashRun(_, _)
NonSlashRun(s, p) ==
    IF p > Len(s) \/ s[p] = "/" THEN 0 ELSE 1 + NonSlashRun(s, p + 1)

\* url.match(/\/accn\/([^/]+)/i): the first segment after "/accn/", null for
\* a null or empty url and for one without such a segment.
parseAccessionFromUrl(url) ==
    IF ~url.some \/ url.v = <<>> THEN None
    ELSE LET lit    == <<"/", "a", "c", "c", "n", "/">>
             starts == {p \in 1..Len(url.v) :
                            /\ LitAtIgnoreCase(url.v, p, lit)
                            /\ NonSlashRun(url.v, p + Len(lit)) > 0}
         IN  IF starts = {} THEN None
             ELSE LET p == Least(starts) + Len(lit)
                  IN  Some(SubSeq(url.v, p, p + NonSlashRun(url.v, p) - 1))

\* /^(LOV|LBK|BEK|FOR|ANO|BKI)/
LawLikePrefixes ==
    {<<"L", "O", "V">>, <<"L", "B", "K">>, <<"B", "E", "K">>,
     <<"F", "O", "R">>, <<"A", "N", "O">>, <<"B", "K", "I">>}

\* isLawLikeDocument: documentType holds the shortName, None when the
\* document type or its short name is missing.
isLawLikeDocument(doc) ==
    LET shortName == toUpperCase(IF doc.documentType.some THEN doc.documentType.v ELSE <<>>)
    IN  \E lit \in LawLikePrefixes : LitAt(shortName, 1, lit)

\* /Changed|Created|MetadataChanged/i.test(reason)
ChangeWords == {<<"C", "h", "a", "n", "g", "e", "d">>, <<"C", "r", "e", "a", "t", "e", "d">>}

reasonSuggestsChange(reason) ==
    \E lit \in ChangeWords \cup {<<"M", "e", "t", "a", "d", "a", "t", "a", "C", "h", "a", "n", "g", "e", "d">>} :
        \E p \in 1..Len(reason) : LitAtIgnoreCase(reason, p, lit)

\* remoteDocs.filter(isLawLikeDocument)
changedLawDocs(remoteDocs) == SelectSeq(remoteDocs, isLawLikeDocument)

\* localById.has(id) and localById.get(id): of rows with one id the Map keeps
\* the last.
localHas(locals, id) == \E j \in 1..Len(locals) : locals[j].id = id

localGet(locals, id) ==
    locals[CHOOSE j \in 1..Len(locals) :
               /\ locals[j].id = id
               /\ \A k \in (j + 1)..Len(locals) : locals[k].id # id]

\* The set of accessions found in the urls of the local rows.
localAccessions(locals) ==
    {parseAccessionFromUrl(locals[j].url).v :
        j \in {k \in 1..Len(locals) : parseAccessionFromUrl(locals[k].url).some}}

\* The report before the loop, and the loop's sets of keys seen.
EmptyFindings ==
    [updates |-> <<>>, new_documents |-> <<>>,
     seenUpdateKeys |-> {}, seenNewKeys |-> {}, thrown |-> FALSE]

\* The loop of main over the changed law documents from the i-th on.  An
\* accessionsnummer that is undefined makes inferLocalIdFromAccession throw a
\* TypeError, which ends the loop.
RECURSIVE CompareFrom(_, _, _, _)
CompareFrom(changed, i, locals, found) ==
    IF i > Len(changed) THEN found
    ELSE LET remote == changed[i]
         IN  IF ~remote.accessionsnummer.some THEN [found EXCEPT !.thrown = TRUE]
             ELSE
             LET number     == remote.accessionsnummer.v
                 inferredId == inferLocalIdFromAccession(number)
             IN  IF inferredId.some /\ localHas(locals, inferredId.v)
                 THEN LET localDoc         == localGet(locals, inferredId.v)
                          localAccession   == parseAccessionFromUrl(localDoc.url)
                          accessionChanged == localAccession.some /\ localAccession.v # number
                          updateKey        == inferredId.v \o <<":">> \o number
                      IN  IF /\ accessionChanged \/ reasonSuggestsChange(remote.reasonForChange)
                             /\ updateKey \notin found.seenUpdateKeys
                          THEN CompareFrom(changed, i + 1, locals,
                                   [found EXCEPT
                                      !.seenUpdateKeys = @ \cup {updateKey},
                                      !.updates = Append(@,
                                          [local_id           |-> inferredId.v,
                                           local_title        |-> localDoc.title,
                                           remote_document_id |-> remote.documentId,
                                           remote_accession   |-> number,
                                           change_date        |-> remote.changeDate,
                                           reason             |-> remote.reasonForChange])])
                          ELSE CompareFrom(changed, i + 1, locals, found)
                 ELSE IF number \in localAccessions(locals)
                 THEN CompareFrom(changed, i + 1, locals, found)
                 ELSE LET newKey == remote.documentId \o <<":">> \o number
                      IN  IF newKey \notin found.seenNewKeys
                          THEN CompareFrom(changed, i + 1, locals,
                                   [found EXCEPT
                                      !.seenNewKeys = @ \cup {newKey},
                                      !.new_documents = Append(@,
                                          [inferred_id        |-> inferredId,
                                           remote_document_id |-> remote.documentId,
                                           remote_accession   |-> number,
                                           type               |-> IF remote.documentType.some
                                                                  THEN remote.documentType.v
                                                                  ELSE <<"u", "n", "k", "n", "o", "w", "n">>,
                                           change_date        |-> remote.changeDate])])
                          ELSE CompareFrom(changed, i + 1, locals, found)

\* The status main ends with once the report is printed, here without
\* regard to --fail-on-updates.
ExitStatusWithoutFlag(args, rep) ==
    IF Len(rep.updates) > 0 \/ Len(rep.new_documents) > 0 THEN 1 ELSE 0

\* The status main ends with once the report is printed (mcp.ts 802-806).
ExitStatus(args, rep) ==
    IF args.failOnUpdates /\ (Len(rep.updates) > 0 \/ Len(rep.new_documents) > 0)
    THEN 1
    ELSE 0

(***************************************************************************)
(* The runs: any of the flags; a database that is missing, that cannot be  *)
(* read, or that holds some statutes; a feed that fails or that lists up   *)
(* to MaxRemoteDocs changed documents.  checked_at, the time of the run,   *)
(* is left out of the report.                                              *)
(***************************************************************************)
MaxRemoteDocs == 2

Flags == {"--json", "--fail-on-updates"}

LocalDocument(id, title, url) == [id |-> id, title |-> title, url |-> url]

Statute1004 == LocalDocument(<<"2", "0", "2", "4", ":", "1", "0", "0", "4">>, "Lov A", Some(<<"/", "e", "l", "i", "/", "a", "c", "c", "n", "/", "B", "2", "0", "2", "4", "0", "1", "0", "0", "4", "0", "5">>))

Statute1004NoUrl == LocalDocument(<<"2", "0", "2", "4", ":", "1", "0", "0", "4">>, "Lov A", None)

Statute502 == LocalDocument(<<"2", "0", "1", "8", ":", "5", "0", "2">>, "Lov B", Some(<<"/", "e", "l", "i", "/", "A", "C", "C", "N", "/", "A", "2", "0", "1", "8", "0", "0", "5", "0", "2", "0", "2", "/", "d", "a", "n">>))

StatuteOther == LocalDocument(<<"l", "o", "v", "-", "x">>, "Lov C", Some(<<"/", "a", "c", "c", "n", "/", "X", "1">>))

\* The results of loadLocalStatutes, ordered by id.
LocalStatutes ==
    {<<>>, <<Statute1004>>, <<Statute1004NoUrl>>, <<Statute502>>,
     <<Statute502, Statute1004>>, <<Statute1004, StatuteOther>>}

RemoteDocument(documentId, accessionsnummer, reasonForChange, documentType) ==
    [documentId       |-> documentId,
     accessionsnummer |-> accessionsnummer,
     reasonForChange  |-> reasonForChange,
     changeDate       |-> "2024-06-01",
     documentType     |-> documentType]

\* The changed documents a feed may list: the accession of a local statute or
\* a later variant of it, one no id can be inferred from, one that is
\* missing; reasons that suggest a change and one that does not; law-like
\* document types in either case, another type, and a missing one.
RemoteDocuments ==
    {RemoteDocument(<<"d", "1">>, Some(<<"B", "2", "0", "2", "4", "0", "1", "0", "0", "4", "0", "5">>), <<"D", "e", "l", "e", "t", "e", "d">>, Some(<<"L", "O", "V">>)),
     RemoteDocument(<<"d", "1">>, Some(<<"B", "2", "0", "2", "4", "0", "1", "0", "0", "4", "9", "9">>), <<"D", "e", "l", "e", "t", "e", "d">>, Some(<<"L", "O", "V">>)),
     RemoteDocument(<<"d", "2">>, Some(<<"B", "2", "0", "2", "4", "0", "1", "0", "0", "4", "0", "5">>), <<"M", "e", "t", "a", "d", "a", "t", "a", "C", "h", "a", "n", "g", "e", "d">>, Some(<<"b", "e", "k">>)),
     RemoteDocument(<<"d", "3">>, Some(<<"X", "1">>), <<"c", "r", "e", "a", "t", "e", "d">>, Some(<<"L", "B", "K", " ", "H">>)),
     RemoteDocument(<<"d", "2">>, Some(<<"A", "2", "0", "1", "8", "0", "0", "5", "0", "2", "0", "2">>), <<"C", "h", "a", "n", "g", "e", "d">>, Some(<<"V", "E", "J">>)),
     RemoteDocument(<<"d", "1">>, Some(<<"A", "2", "0", "1", "8", "0", "0", "5", "0", "2", "0", "2">>), <<"C", "r", "e", "a", "t", "e", "d">>, None),
     RemoteDocument(<<"d", "3">>, None, <<"C", "h", "a", "n", "g", "e", "d">>, Some(<<"L", "O", "V">>))}

\* What fetchChangedDocuments ends with: the array of the payload, or one of
\* its errors (a status that is not ok, a payload that is no array; a network
\* failure or the timeout are further errors of the same kind).
Feeds ==
    {[ok |-> TRUE, docs |-> ds, error |-> ""] :
        ds \in UNION {[1..n -> RemoteDocuments] : n \in 0..MaxRemoteDocs}}
      \cup {[ok |-> FALSE, docs |-> <<>>, error |-> e] :
               e \in {"Retsinformation API returned HTTP 500",
                      "Retsinformation API returned non-array payload"}}

\* const report at the start of main.
EmptyReport ==
    [local_statutes |-> 0, remote_changed_documents |-> 0,
     updates |-> <<>>, new_documents |-> <<>>, errors |-> <<>>]

InitUpdate ==
    /\ NotUpdateIdle
    /\ argv \in SUBSET Flags
    /\ database \in {"missing", "unreadable", "present"}
    /\ localDocs \in IF database = "present" THEN LocalStatutes ELSE {<<>>}
    /\ feed \in Feeds
    /\ fetched = FALSE
    /\ report = EmptyReport
    /\ printed = "nothing"
    /\ exitCode = -1
    /\ pc = "main"

\* main, the database file being absent (mcp.ts 699-720): the message goes to
\* stdout inside a JSON report with --json, to stderr without, and the
\* process exits with 1.
DatabaseMissing ==
    /\ pc = "main"
    /\ database = "missing"
    /\ printed' = IF parseArgs(argv).json THEN "error report" ELSE "error message"
    /\ exitCode' = 1
    /\ pc' = "exited"
    /\ UNCHANGED <<argv, database, localDocs, feed, fetched, report>>
    /\ UNCHANGED notUpdateVars

\* main, loadLocalStatutes throwing (mcp.ts 722, 638-655): the rejection is
\* caught at mcp.ts 809-813, which prints "check-updates failed" and exits
\* with 1.
LoadFails ==
    /\ pc = "main"
    /\ database = "unreadable"
    /\ printed' = "error message"
    /\ exitCode' = 1
    /\ pc' = "exited"
    /\ UNCHANGED <<argv, database, localDocs, feed, fetched, report>>
    /\ UNCHANGED notUpdateVars

\* main up to its await (mcp.ts 699-737): the statutes are loaded and the
\* API is asked.
LoadAndFetch ==
    /\ pc = "main"
    /\ database = "present"
    /\ report' = [report EXCEPT !.local_statutes = Len(localDocs)]
    /\ fetched' = TRUE
    /\ pc' = "fetching"
    /\ UNCHANGED <<argv, database, localDocs, feed, printed, exitCode>>
    /\ UNCHANGED notUpdateVars

\* main from its await on (mcp.ts 737-806): a failed fetch leaves its message
\* in report.errors and no remote documents; the changed law documents are
\* compared with the local statutes, the report is printed and the process
\* exits.  An error thrown in the loop is caught at mcp.ts 809-813 instead.
Report ==
    /\ pc = "fetching"
    /\ LET args       == parseArgs(argv)
           remoteDocs == IF feed.ok THEN feed.docs ELSE <<>>
           errors     == IF feed.ok THEN report.errors ELSE Append(report.errors, feed.error)
           changed    == changedLawDocs(remoteDocs)
           found      == CompareFrom(changed, 1, localDocs, EmptyFindings)
           rep        == [report EXCEPT
                             !.errors = errors,
                             !.remote_changed_documents = Len(changed),
                             !.updates = found.updates,
                             !.new_documents = found.new_documents]
       IN  /\ report' = rep
           /\ IF found.thrown
              THEN /\ printed' = "error message"
                   /\ exitCode' = 1
              ELSE /\ printed' = "report"
                   /\ exitCode' = ExitStatus(args, rep)
    /\ pc' = "exited"
    /\ UNCHANGED <<argv, database, localDocs, feed, fetched>>
    /\ UNCHANGED notUpdateVars

NextUpdate ==
    \/ DatabaseMissing
    \/ LoadFails
    \/ LoadAndFetch
    \/ Report

SpecUpdate == InitUpdate /\ [][NextUpdate]_vars

(***************************************************************************)
(* C19                                                                     *)
(***************************************************************************)
\* C19: a run with the local database missing exits with 1 before the API is
\* asked; a run whose fetch fails records the error, prints the report with
\* no update and no new document, and exits with 0; and a run that printed
\* the report exits with 1 exactly when --fail-on-updates was given and the
\* report holds an update or a new document, with 0 otherwise.
C19_ExitCodes ==
    pc = "exited" =>
        /\ database = "missing" =>
              exitCode = 1 /\ ~fetched /\ printed # "report"
        /\ (fetched /\ ~feed.ok) =>
              /\ report.errors = <<feed.error>>
              /\ report.updates = <<>> /\ report.new_documents = <<>>
              /\ printed = "report"
              /\ exitCode = 0
        /\ printed = "report" =>
              LET detected == report.updates # <<>> \/ report.new_documents # <<>>
              IN  exitCode = (IF "--fail-on-updates" \in argv /\ detected THEN 1 ELSE 0)

\* A run given --fail-on-updates whose report holds a new document and no
\* update, and which exits with 1.
C19_Witness ==
    /\ pc = "exited"
    /\ "--fail-on-updates" \in argv
    /\ printed = "report"
    /\ report.updates = <<>>
    /\ report.new_documents # <<>>
    /\ exitCode = 1

\* A run given --fail-on-updates whose fetch failed: the report is printed
\* with the error and the run exits with 0.
FetchFailureExitsZero ==
    /\ pc = "exited"
    /\ "--fail-on-updates" \in argv
    /\ fetched /\ ~feed.ok
    /\ exitCode = 0

(***************************************************************************)
(* ingestBatch (auto-ingest-all-statutes.ts 242-294): the laws are taken   *)
(* in order; a law whose seed exists is skipped, a dry run only counts,    *)
(* and otherwise ingest is called and its outcome counted.                 *)
(***************************************************************************)
\* `${law.year}:${law.number}`
LawId(law) == NumberToString(law.year) \o <<":">> \o NumberToString(law.number)

\* path.join(OUTPUT_DIR, `${law.year}_${law.number}.json`), under OUTPUT_DIR
SeedPath(law) ==
    NumberToString(law.year) \o <<"_">> \o NumberToString(law.number) \o <<".", "j", "s", "o", "n">>

\* `${law.url}/xml`
XmlUrl(law) == <<law.url, "/xml">>

\* options.skipExisting && existingIds.has(id)
SkipsLaw(opts, existing, law) == opts.skipExisting /\ LawId(law) \in existing

\* A reading of --dry-run that never holds.
DryRunsNever(opts) == FALSE

\* if (options.dryRun)
DryRuns(opts) == opts.dryRun

\* The step after the try/catch of one law: the pause when delayMs > 0, the
\* next law otherwise.
AfterIngest(opts) == IF opts.delayMs > 0 THEN "sleeping" ELSE "next"

(***************************************************************************)
(* The batches: up to MaxLaws laws out of three, one law possibly twice;   *)
(* any of the options; any of the laws already having a seed.              *)
(***************************************************************************)
MaxLaws == 2

LawEntry(year, number) ==
    [year |-> year, number |-> number,
     url |-> <<"https://www.retsinformation.dk/eli/lta", year, number>>]

LawEntries == {LawEntry(2024, 1004), LawEntry(2018, 502), LawEntry(2024, 7)}

LawLists == UNION {[1..n -> LawEntries] : n \in 0..MaxLaws}

CLIOptions == [dryRun : BOOLEAN, skipExisting : BOOLEAN, delayMs : {0, 350}]

InitBulk ==
    /\ NotBulkIdle
    /\ laws \in LawLists
    /\ options \in CLIOptions
    /\ existingIds \in SUBSET {LawId(LawEntry(2024, 1004)), LawId(LawEntry(2018, 502))}
    /\ stats = <<>>
    /\ cursor = 0
    /\ ingestCalls = <<>>
    /\ seedFiles = {}
    /\ pc = "ingestBatch"

\* ingestBatch up to its loop (247-257): the stats start at zero and the
\* output directory is made.
StartBatch ==
    /\ pc = "ingestBatch"
    /\ stats' = [total |-> Len(laws), skipped |-> 0, succeeded |-> 0,
                 failed |-> 0, errors |-> <<>>]
    /\ cursor' = 1
    /\ pc' = "next"
    /\ UNCHANGED <<laws, options, existingIds, ingestCalls, seedFiles>>
    /\ UNCHANGED notBulkVars

\* fs.mkdirSync throwing (255): ingestBatch rejects before its loop.
MkdirFails ==
    /\ pc = "ingestBatch"
    /\ stats' = [total |-> Len(laws), skipped |-> 0, succeeded |-> 0,
                 failed |-> 0, errors |-> <<>>]
    /\ pc' = "thrown"
    /\ UNCHANGED <<laws, options, existingIds, cursor, ingestCalls, seedFiles>>
    /\ UNCHANGED notBulkVars

\* A law whose seed exists (261-265).
SkipLaw ==
    /\ pc = "next"
    /\ cursor <= Len(laws)
    /\ SkipsLaw(options, existingIds, laws[cursor])
    /\ stats' = [stats EXCEPT !.skipped = @ + 1]
    /\ cursor' = cursor + 1
    /\ UNCHANGED <<laws, options, existingIds, ingestCalls, seedFiles, pc>>
    /\ UNCHANGED notBulkVars

\* A law of a dry run (267-274).
DryRunLaw ==
    /\ pc = "next"
    /\ cursor <= Len(laws)
    /\ ~SkipsLaw(options, existingIds, laws[cursor])
    /\ DryRuns(options)
    /\ stats' = [stats EXCEPT !.succeeded = @ + 1]
    /\ cursor' = cursor + 1
    /\ UNCHANGED <<laws, options, existingIds, ingestCalls, seedFiles, pc>>
    /\ UNCHANGED notBulkVars

\* ingest is called (276-277).
CallIngest ==
    /\ pc = "next"
    /\ cursor <= Len(laws)
    /\ ~SkipsLaw(options, existingIds, laws[cursor])
    /\ ~DryRuns(options)
    /\ ingestCalls' = Append(ingestCalls,
                             [identifier |-> XmlUrl(laws[cursor]),
                              outputPath |-> SeedPath(laws[cursor])])
    /\ pc' = "ingesting"
    /\ UNCHANGED <<laws, options, existingIds, stats, cursor, seedFiles>>
    /\ UNCHANGED notBulkVars

\* ingest resolves, having written the seed file (mcp.ts 1159-1237), and the
\* law is counted (278-280, 288).
IngestResolves ==
    /\ pc = "ingesting"
    /\ seedFiles' = seedFiles \cup {SeedPath(laws[cursor])}
    /\ stats' = [stats EXCEPT !.succeeded = @ + 1]
    /\ existingIds' = existingIds \cup {LawId(laws[cursor])}
    /\ pc' = AfterIngest(options)
    /\ cursor' = IF AfterIngest(options) = "next" THEN cursor + 1 ELSE cursor
    /\ UNCHANGED <<laws, options, ingestCalls>>
    /\ UNCHANGED notBulkVars

\* ingest rejects, which it does before it writes or in writing, and the
\* failure is recorded (281-288).
IngestRejects ==
    /\ pc = "ingesting"
    /\ \E message \in {"No XML href found", "Unexpected XML payload"} :
           stats' = [stats EXCEPT
                        !.failed = @ + 1,
                        !.errors = Append(@, [id |-> LawId(laws[cursor]), error |-> message])]
    /\ pc' = AfterIngest(options)
    /\ cursor' = IF AfterIngest(options) = "next" THEN cursor + 1 ELSE cursor
    /\ UNCHANGED <<laws, options, existingIds, ingestCalls, seedFiles>>
    /\ UNCHANGED notBulkVars

\* The pause between two laws ends (288-291).
Wake ==
    /\ pc = "sleeping"
    /\ cursor' = cursor + 1
    /\ pc' = "next"
    /\ UNCHANGED <<laws, options, existingIds, stats, ingestCalls, seedFiles>>
    /\ UNCHANGED notBulkVars

\* return stats (293).
ReturnStats ==
    /\ pc = "next"
    /\ cursor > Len(laws)
    /\ pc' = "returned"
    /\ UNCHANGED <<laws, options, existingIds, stats, cursor, ingestCalls, seedFiles>>
    /\ UNCHANGED notBulkVars

NextBulk ==
    \/ StartBatch
    \/ MkdirFails
    \/ SkipLaw
    \/ DryRunLaw
    \/ CallIngest
    \/ IngestResolves
    \/ IngestRejects
    \/ Wake
    \/ ReturnStats

SpecBulk == InitBulk /\ [][NextBulk]_vars

(***************************************************************************)
(* C21                                                                     *)
(***************************************************************************)
\* The laws of the batch that are not skipped.
NotSkipped ==
    {k \in 1..Len(laws) : ~(options.skipExisting /\ LawId(laws[k]) \in existingIds)}

\* C21: in a dry run ingest is never called and no seed file is written; no
\* failure is counted, and the batch returns with every law that is not
\* skipped counted as succeeded.
C21_DryRunCallsNoIngest ==
    options.dryRun =>
        /\ ingestCalls = <<>>
        /\ seedFiles = {}
        /\ pc \notin {"ingesting", "sleeping"}
        /\ pc # "ingestBatch" => stats.failed = 0 /\ stats.errors = <<>>
        /\ pc = "returned" =>
              /\ stats.succeeded = Cardinality(NotSkipped)
              /\ stats.skipped = Len(laws) - Cardinality(NotSkipped)

\* A dry run over two laws, one of them with a seed and skipped, the other
\* counted as succeeded.
C21_Witness ==
    /\ pc = "returned"
    /\ options.dryRun
    /\ Len(laws) = 2
    /\ stats.skipped = 1
    /\ stats.succeeded = 1
    /\ ingestCalls = <<>>

(***************************************************************************)
(* The HTTP handler and ensureDatabase (mcp.ts 32-147) in one process that *)
(* serves several invocations.  An invocation runs from one await to the   *)
(* next without interruption; between two awaits of one invocation the     *)
(* others may arrive and run.  A file is an inode with its content, the    *)
(* decompressed database being Chunks chunks long; a path names an inode,  *)
(* and an open stream keeps its inode whatever the path names later.       *)
(***************************************************************************)
TMP_DB_LOCK == "/tmp/database.db.lock"

\* A value of DANISH_LAW_DB_PATH.
EnvDbPath == "/data/database.db"

Paths == {TMP_DB, TMP_DB_TMP, TMP_DB_LOCK, EnvDbPath}

Chunks == 2

MaxCalls == 3

MaxRequests == 2

CompleteContent == [k \in 1..Chunks |-> "data"]

Complete(content) == content = CompleteContent

\* A stream that has written p - 1 chunks writes its next one: the chunk
\* lands at its own offset, whatever the file holds there.
WriteAt(content, p) ==
    [k \in 1..(IF Len(content) > p THEN Len(content) ELSE p) |->
        IF k = p THEN "data"
        ELSE IF k <= Len(content) THEN content[k]
        ELSE "hole"]

\* The responses a server gives to the requests of one download, in order.
Redirect == [statusCode |-> 300, location |-> "s3"]

ResponseChains ==
    {<<[statusCode |-> 200, location |-> ""]>>,
     <<Redirect, [statusCode |-> 200, location |-> ""]>>,
     <<[statusCode |-> 400, location |-> ""]>>,
     [k \in 1..(MaxRedirects + 1) |-> Redirect] \o <<[statusCode |-> 200, location |-> ""]>>}

\* The response the redirect loop of downloadDatabase is left with
\* (mcp.ts 45-58): chain[k] is in hand after n redirects.
RECURSIVE FinalResponse(_, _, _)
FinalResponse(chain, k, n) ==
    IF k < Len(chain) /\ ShouldFollow(chain[k], n)
    THEN FinalResponse(chain, k + 1, n + 1)
    ELSE chain[k]

StatusText(statusCode) ==
    CASE statusCode = 200 -> "200"
      [] statusCode = 300 -> "300"
      [] statusCode = 400 -> "400"
      [] OTHER -> "undefined"

\* req.method: the two the handler answers itself, and POST for every other.
Methods == {"OPTIONS", "GET", "POST"}

\* An invocation as it arrives: nothing sent, no stream, no handle, no error
\* caught.  History: `cached` is the module-level db it finds, `found` what
\* exists in the file system then, `ensured` whether it called
\* ensureDatabase, `downloaded` whether it called downloadDatabase.
NewCall(method) ==
    [method |-> method, at |-> "arrived", stream |-> 0, pos |-> 0, handle |-> 0,
     sent |-> <<>>, error |-> <<>>,
     cached |-> db,
     found |-> [database |-> names[TMP_DB] # 0,
                envDatabase |-> envDb # "" /\ names[envDb] # 0],
     ensured |-> FALSE, downloaded |-> FALSE]

Response(status, body) == [status |-> status, body |-> body]

\* res.headersSent
headersSent(call) == call.sent # <<>>

\* A catch block that answers 500 whether or not headers were sent.
CatchAlwaysAnswers(call, message) ==
    [call EXCEPT !.at = "done",
                 !.error = message,
                 !.sent = Append(@, Response(500, message))]

\* The catch block of the handler (mcp.ts 140-146).
Catch(call, message) ==
    [call EXCEPT !.at = "done",
                 !.error = message,
                 !.sent = IF headersSent(call) THEN @
                          ELSE Append(@, Response(500, message))]

\* new Database(path, { readonly: true }); db.pragma(...); return db
\* (mcp.ts 84-86, 94-96) for the invocation `call`, whose other steps up to
\* here are in `fs`, the names after them.  Opening a file that is not a
\* whole database may throw.  `put` is where the invocation stands in calls.
OpenDatabase(call, path, fs, put) ==
    \E opens \in IF Complete(inodes[fs[path]]) THEN {TRUE} ELSE {TRUE, FALSE} :
        IF opens
        THEN /\ handles' = Append(handles, [path |-> path, inode |-> fs[path]])
             /\ db' = Len(handles) + 1
             /\ calls' = [k \in 1..(IF put > Len(calls) THEN put ELSE Len(calls)) |->
                             IF k = put
                             THEN [call EXCEPT !.at = "connect", !.handle = Len(handles) + 1]
                             ELSE calls[k]]
        ELSE /\ UNCHANGED <<db, handles>>
             /\ calls' = [k \in 1..(IF put > Len(calls) THEN put ELSE Len(calls)) |->
                             IF k = put
                             THEN Catch(call, <<"file is not a database">>)
                             ELSE calls[k]]

\* Whether ensureDatabase, finding no handle cached, starts a download
\* (mcp.ts 80-90).
StartsDownload(fs, env) ==
    /\ fs[TMP_DB] = 0
    /\ ~(env # "" /\ fs[env] # 0)

\* ensureDatabase up to its await or its return (mcp.ts 73-96), and with it
\* the handler up to its next await, for the invocation `call` that arrives.
EnsureDatabase(arrived) ==
    LET call == [arrived EXCEPT !.ensured = TRUE]
    IN
    IF db # 0
    THEN /\ calls' = Append(calls, [call EXCEPT !.at = "connect", !.handle = db])
         /\ UNCHANGED <<db, handles, names, inodes>>
    ELSE LET fs == [names EXCEPT ![TMP_DB_LOCK] = 0]
         IN  /\ names' = fs
             /\ UNCHANGED inodes
             /\ IF StartsDownload(fs, envDb)
                THEN /\ calls' = Append(calls, [call EXCEPT !.at = "request",
                                                            !.downloaded = TRUE])
                     /\ UNCHANGED <<db, handles>>
                ELSE OpenDatabase(call, IF fs[TMP_DB] = 0 THEN envDb ELSE TMP_DB,
                                  fs, Len(calls) + 1)

InitServer ==
    /\ NotServerIdle
    /\ db = 0
    /\ handles = <<>>
    /\ inodes = <<CompleteContent, <<"data">>, <<>>, CompleteContent>>
    /\ names \in {f \in [Paths -> 0..4] :
                     /\ f[TMP_DB] \in {0, 1}
                     /\ f[TMP_DB_TMP] \in {0, 2}
                     /\ f[TMP_DB_LOCK] \in {0, 3}
                     /\ f[EnvDbPath] \in {0, 4}}
    /\ envDb \in {"", EnvDbPath}
    /\ calls = <<>>
    /\ pc = "serving"

\* An invocation arrives and runs to its first await (mcp.ts 103-124, 73-90):
\* OPTIONS and GET are answered at once; any other method prepares the
\* database.  The process gets `limit` invocations at most.
Arrive(limit) ==
    /\ pc = "serving"
    /\ Len(calls) < limit
    /\ \E method \in Methods :
          LET call == NewCall(method)
          IN  IF method = "OPTIONS"
              THEN /\ calls' = Append(calls, [call EXCEPT !.at = "done",
                                                 !.sent = <<Response(204, <<>>)>>])
                   /\ UNCHANGED <<db, handles, names, inodes>>
              ELSE IF method = "GET"
              THEN /\ calls' = Append(calls, [call EXCEPT !.at = "done",
                                                 !.sent = <<Response(200, <<"danish-legal-citations", "1.0.1", "mcp-streamable-http">>)>>])
                   /\ UNCHANGED <<db, handles, names, inodes>>
              ELSE EnsureDatabase(call)
    /\ UNCHANGED <<envDb, pc>>
    /\ UNCHANGED notServerVars

\* The requests of downloadDatabase end (mcp.ts 45-67): with a request's
\* error, with a last response that is not 200, which throws, or with 200,
\* and then the stream to the temporary file is created.
Responded(i) ==
    /\ pc = "serving"
    /\ calls[i].at = "request"
    /\ \/ calls' = [calls EXCEPT ![i] = Catch(@, <<"socket hang up">>)]
       \/ \E chain \in ResponseChains :
             LET last == FinalResponse(chain, 1, 0)
             IN  calls' = [calls EXCEPT ![i] =
                    IF last.statusCode # 200
                    THEN Catch(@, <<"Failed to download database: HTTP", StatusText(last.statusCode)>>)
                    ELSE [@ EXCEPT !.at = "open"]]
    /\ UNCHANGED <<db, handles, names, inodes, envDb, pc>>
    /\ UNCHANGED notServerVars

\* The stream created by createWriteStream(TMP_DB_TMP) opens its file
\* (mcp.ts 67): the file is made, or emptied when the path exists.
OpenTemp(i) ==
    /\ pc = "serving"
    /\ calls[i].at = "open"
    /\ IF names[TMP_DB_TMP] = 0
       THEN /\ inodes' = Append(inodes, <<>>)
            /\ names' = [names EXCEPT ![TMP_DB_TMP] = Len(inodes) + 1]
            /\ calls' = [calls EXCEPT ![i].at = "writing", ![i].stream = Len(inodes) + 1]
       ELSE /\ inodes' = [inodes EXCEPT ![names[TMP_DB_TMP]] = <<>>]
            /\ names' = names
            /\ calls' = [calls EXCEPT ![i].at = "writing", ![i].stream = names[TMP_DB_TMP]]
    /\ UNCHANGED <<db, handles, envDb, pc>>
    /\ UNCHANGED notServerVars

\* The pipeline writes its next chunk (mcp.ts 68).
WriteChunk(i) ==
    /\ pc = "serving"
    /\ calls[i].at = "writing"
    /\ calls[i].pos < Chunks
    /\ inodes' = [inodes EXCEPT ![calls[i].stream] = WriteAt(@, calls[i].pos + 1)]
    /\ calls' = [calls EXCEPT ![i].pos = @ + 1]
    /\ UNCHANGED <<db, handles, names, envDb, pc>>
    /\ UNCHANGED notServerVars

\* The pipeline rejects (mcp.ts 68): the response breaks off or does not
\* decompress.
PipelineFails(i) ==
    /\ pc = "serving"
    /\ calls[i].at = "writing"
    /\ calls[i].pos < Chunks
    /\ calls' = [calls EXCEPT ![i] = Catch(@, <<"unexpected end of file">>)]
    /\ UNCHANGED <<db, handles, names, inodes, envDb, pc>>
    /\ UNCHANGED notServerVars

\* The pipeline resolves (mcp.ts 68-69, 91-96): the temporary path is renamed
\* to the database path, which throws when it names nothing, and the database
\* is opened and cached.
PipelineEnds(i) ==
    /\ pc = "serving"
    /\ calls[i].at = "writing"
    /\ calls[i].pos = Chunks
    /\ UNCHANGED inodes
    /\ IF names[TMP_DB_TMP] = 0
       THEN /\ calls' = [calls EXCEPT ![i] = Catch(@, <<"ENOENT: no such file or directory, rename">>)]
            /\ UNCHANGED <<db, handles, names>>
       ELSE LET fs == [names EXCEPT ![TMP_DB] = names[TMP_DB_TMP], ![TMP_DB_TMP] = 0]
            IN  /\ names' = fs
                /\ OpenDatabase(calls[i], TMP_DB, fs, i)
    /\ UNCHANGED <<envDb, pc>>
    /\ UNCHANGED notServerVars

\* The rest of the handler (mcp.ts 126-146): the server is connected and the
\* request handled, which answers it; or one of the two throws, the second
\* before or after it has sent headers.
Serve(i) ==
    /\ pc = "serving"
    /\ calls[i].at = "connect"
    /\ \/ calls' = [calls EXCEPT ![i] = [@ EXCEPT !.at = "done",
                                            !.sent = <<Response(200, <<"result">>)>>]]
       \/ calls' = [calls EXCEPT ![i] = Catch(@, <<"Already connected to a transport">>)]
       \/ calls' = [calls EXCEPT ![i] = Catch(@, <<"Parse error">>)]
       \/ calls' = [calls EXCEPT ![i] =
              Catch([@ EXCEPT !.sent = <<Response(200, <<"partial">>)>>], <<"write after end">>)]
    /\ UNCHANGED <<db, handles, names, inodes, envDb, pc>>
    /\ UNCHANGED notServerVars

Step ==
    \/ \E i \in 1..Len(calls) : Responded(i)
    \/ \E i \in 1..Len(calls) : OpenTemp(i)
    \/ \E i \in 1..Len(calls) : WriteChunk(i)
    \/ \E i \in 1..Len(calls) : PipelineFails(i)
    \/ \E i \in 1..Len(calls) : PipelineEnds(i)
    \/ \E i \in 1..Len(calls) : Serve(i)

\* A cold start with up to MaxCalls invocations.
NextServer == Arrive(MaxCalls) \/ Step

SpecServer == InitServer /\ [][NextServer]_vars

\* The handler serving up to MaxRequests invocations.
NextHandler == Arrive(MaxRequests) \/ Step

SpecHandler == InitServer /\ [][NextHandler]_vars

(***************************************************************************)
(* C22                                                                     *)
(***************************************************************************)
\* C22: an invocation that arrives when a handle has been opened returns the
\* handle that was opened first, without a download; and an invocation that
\* starts a download found no handle cached, no /tmp/database.db, and no
\* existing file named by DANISH_LAW_DB_PATH.
C22_LaterCallsReturnTheSameHandle ==
    \A i \in 1..Len(calls) :
        /\ (calls[i].cached # 0 /\ calls[i].ensured) =>
               calls[i].handle = 1 /\ ~calls[i].downloaded
        /\ calls[i].downloaded =>
               /\ calls[i].cached = 0
               /\ ~calls[i].found.database
               /\ ~calls[i].found.envDatabase

\* What does hold: an invocation that finds a handle cached returns that
\* handle without a download, and a download starts only with no handle
\* cached, no database file and no file named by the environment.
CachedHandleIsReturned ==
    \A i \in 1..Len(calls) :
        /\ (calls[i].cached # 0 /\ calls[i].ensured) =>
               calls[i].handle = calls[i].cached /\ ~calls[i].downloaded
        /\ calls[i].downloaded =>
               /\ calls[i].cached = 0
               /\ ~calls[i].found.database
               /\ ~calls[i].found.envDatabase

\* Two invocations that both downloaded and each opened a handle, the second
\* replacing the first in the cache, and a third that arrived later and was
\* given the second.
TwoHandlesCached ==
    /\ Len(calls) = 3
    /\ calls[1].downloaded /\ calls[2].downloaded
    /\ Len(handles) = 2
    /\ calls[3].cached = 2
    /\ calls[3].handle = 2

(***************************************************************************)
(* C23                                                                     *)
(***************************************************************************)
\* C23: whenever /tmp/database.db exists it holds the whole database.
C23_DatabaseFileIsComplete ==
    names[TMP_DB] # 0 => Complete(inodes[names[TMP_DB]])

\* /tmp/database.db exists with a hole in it while a second download is
\* still writing into the same file.
DatabaseFileWithHole ==
    /\ names[TMP_DB] # 0
    /\ ~Complete(inodes[names[TMP_DB]])
    /\ \E i \in 1..Len(calls) :
           calls[i].at = "writing" /\ calls[i].stream = names[TMP_DB]

\* With one download at most under way, the database file is whole.
AloneDatabaseFileIsComplete ==
    Cardinality({i \in 1..Len(calls) : calls[i].downloaded}) <= 1 =>
        (names[TMP_DB] # 0 => Complete(inodes[names[TMP_DB]]))

(***************************************************************************)
(* C26                                                                     *)
(***************************************************************************)
\* C26: OPTIONS is answered 204 and GET 200 with the server metadata, both
\* without ensureDatabase being called; no invocation sends a second
\* response; and an invocation of another method in which something threw
\* has answered 500 with the error message, unless headers had been sent
\* when it threw, and then the response under way is all it sent.
C26_HandlerAnswersOnce ==
    \A i \in 1..Len(calls) :
        LET call == calls[i]
        IN  /\ Len(call.sent) <= 1
            /\ call.method = "OPTIONS" =>
                   /\ call.at = "done" /\ ~call.ensured
                   /\ call.sent = <<Response(204, <<>>)>>
            /\ call.method = "GET" =>
                   /\ call.at = "done" /\ ~call.ensured
                   /\ call.sent = <<Response(200, <<"danish-legal-citations", "1.0.1", "mcp-streamable-http">>)>>
            /\ call.method \notin {"OPTIONS", "GET"} =>
                   /\ call.ensured
                   /\ call.at = "done" => Len(call.sent) = 1
                   /\ call.error # <<>> =>
                          /\ call.at = "done"
                          /\ \/ call.sent = <<Response(500, call.error)>>
                             \/ call.sent = <<Response(200, <<"partial">>)>>

\* A POST whose request handling threw after it had sent headers: the
\* response under way is the only one.
C26_Witness ==
    \E i \in 1..Len(calls) :
        /\ calls[i].method = "POST"
        /\ calls[i].error # <<>>
        /\ calls[i].sent = <<Response(200, <<"partial">>)>>

\* A POST whose download failed: answered 500 with the error message.
DownloadFailureAnswered ==
    \E i \in 1..Len(calls) :
        /\ calls[i].method = "POST"
        /\ calls[i].downloaded
        /\ calls[i].handle = 0
        /\ calls[i].sent = <<Response(500, calls[i].error)>>

(***************************************************************************)
(* The tool registry (mcp.ts 178-503): the tools listed and the dispatch   *)
(* of a call by the tool's name.  A tool is modelled by its name; what its *)
(* implementation does with the database is left open: it returns a value, *)
(* returns one JSON.stringify refuses, or throws.                          *)
(***************************************************************************)
LIST_SOURCES_TOOL == "list_sources"

ABOUT_TOOL == "about"

TOOLS ==
    <<"search_legislation", "get_provision", "search_case_law",
      "get_preparatory_works", "validate_citation", "build_legal_stance",
      "format_citation", "check_currency", "get_eu_basis",
      "get_danish_implementations", "search_eu_implementations",
      "get_provision_eu_basis", "validate_eu_compliance">>

\* A list that holds the about tool whatever the context.
buildToolsWithAbout(context) == TOOLS \o <<ABOUT_TOOL, LIST_SOURCES_TOOL>>

buildTools(context) ==
    IF context THEN TOOLS \o <<ABOUT_TOOL, LIST_SOURCES_TOOL>>
    ELSE TOOLS \o <<LIST_SOURCES_TOOL>>

\* The case labels of the switch that call a tool implementation and await
\* it (mcp.ts 406-445).
ImplementedCases ==
    {"search_legislation", "get_provision", "search_case_law",
     "get_preparatory_works", "validate_citation", "build_legal_stance",
     "format_citation", "check_currency", "get_eu_basis",
     "get_danish_implementations", "get_swedish_implementations",
     "search_eu_implementations", "get_provision_eu_basis",
     "validate_eu_compliance"}

\* All the case labels of the switch (mcp.ts 406-484).
CaseLabels == ImplementedCases \cup {"about", "list_sources"}

\* What the handler gives: a result, or the rejection of its promise.
CallToolResult(isError, content) ==
    [rejected |-> FALSE, isError |-> isError, text |-> content]

Rejection(message) == [rejected |-> TRUE, isError |-> FALSE, text |-> <<message>>]

\* What a tool implementation does when called.
Behaviours ==
    {[does |-> "returns", message |-> "value"],
     [does |-> "returns unserialisable", message |-> "Converting circular structure to JSON"],
     [does |-> "throws Error", message |-> "no such table: legal_provisions"],
     [does |-> "throws value", message |-> "timeout"]}

\* A handler whose catch block throws the error on.
Rethrow(name, message) == Rejection(message)

\* The catch block (mcp.ts 495-501).
CatchError(name, message) ==
    CallToolResult(TRUE, <<"Error executing ", name, ": ", message>>)

\* The try block after the switch (mcp.ts 492-494) for a tool that has run:
\* JSON.stringify of what it returned, or the error it threw, caught.
Stringified(name, behaviour) ==
    IF behaviour.does = "returns"
    THEN CallToolResult(FALSE, <<"JSON of ", behaviour.message>>)
    ELSE CatchError(name, behaviour.message)

\* The CallTool handler (mcp.ts 399-502).
CallToolHandler(name, context, behaviour) ==
    IF name \in ImplementedCases THEN Stringified(name, behaviour)
    ELSE IF name = "about"
    THEN IF context THEN Stringified(name, behaviour)
         ELSE CallToolResult(TRUE, <<"About tool not configured.">>)
    ELSE IF name = "list_sources"
    THEN CallToolResult(FALSE, <<"JSON of ", "sources">>)
    ELSE CallToolResult(TRUE, <<"Error: Unknown tool \"", name, "\".">>)

\* The names asked for: every case label, and names no case has.
ToolNames == CaseLabels \cup {"get_norwegian_implementations", "About", ""}

InitTools ==
    /\ NotToolsIdle
    /\ aboutContext \in BOOLEAN
    /\ listedTools = <<>>
    /\ toolCall = <<>>
    /\ toolResult = <<>>
    /\ pc = "registered"

\* The ListTools handler (mcp.ts 393-397).
ListTools ==
    /\ pc \in {"registered", "listed", "called"}
    /\ listedTools' = buildTools(aboutContext)
    /\ pc' = "listed"
    /\ UNCHANGED <<aboutContext, toolCall, toolResult>>
    /\ UNCHANGED notToolsVars

\* The CallTool handler (mcp.ts 399-502).
CallTool ==
    /\ pc \in {"registered", "listed", "called"}
    /\ \E name \in ToolNames, behaviour \in Behaviours :
          /\ toolCall' = [name |-> name, behaviour |-> behaviour]
          /\ toolResult' = CallToolHandler(name, aboutContext, behaviour)
    /\ pc' = "called"
    /\ UNCHANGED <<aboutContext, listedTools>>
    /\ UNCHANGED notToolsVars

NextTools == ListTools \/ CallTool

SpecTools == InitTools /\ [][NextTools]_vars

(***************************************************************************)
(* C24                                                                     *)
(***************************************************************************)
\* C24: the CallTool handler always gives a result: for a name no case has,
\* an error result that names it; for about without a context, an error
\* result; and when the tool's implementation threw, an error result with
\* the tool's name and the error's message.
C24_CallToolAlwaysReturns ==
    pc = "called" =>
        /\ ~toolResult.rejected
        /\ toolCall.name \notin CaseLabels =>
              /\ toolResult.isError
              /\ toolResult.text = <<"Error: Unknown tool \"", toolCall.name, "\".">>
        /\ (toolCall.name = "about" /\ ~aboutContext) => toolResult.isError
        /\ (/\ toolCall.behaviour.does \in {"throws Error", "throws value"}
            /\ toolCall.name \in ImplementedCases \cup (IF aboutContext THEN {"about"} ELSE {})) =>
              /\ toolResult.isError
              /\ toolResult.text = <<"Error executing ", toolCall.name, ": ", toolCall.behaviour.message>>

\* get_provision, whose implementation throws: an error result with the
\* name and the message.
C24_Witness ==
    /\ pc = "called"
    /\ toolCall.name = "get_provision"
    /\ toolCall.behaviour.does = "throws Error"
    /\ toolResult = CallToolResult(TRUE, <<"Error executing ", "get_provision", ": ", "no such table: legal_provisions">>)

(***************************************************************************)
(* C25                                                                     *)
(***************************************************************************)
\* C25: the tools listed have distinct names, each a case label of the
\* dispatch; with an about context they are 15, and about is listed exactly
\* then; and a call of a listed tool is never answered "Unknown tool".
C25_ListedToolsAreDispatched ==
    /\ pc = "listed" =>
          /\ \A i, j \in 1..Len(listedTools) : listedTools[i] = listedTools[j] => i = j
          /\ \A i \in 1..Len(listedTools) : listedTools[i] \in CaseLabels
          /\ aboutContext => Len(listedTools) = 15
          /\ (\E i \in 1..Len(listedTools) : listedTools[i] = "about") <=> aboutContext
    /\ (pc = "called" /\ \E i \in 1..Len(listedTools) : listedTools[i] = toolCall.name) =>
          toolResult.text # <<"Error: Unknown tool \"", toolCall.name, "\".">>

\* With an about context, the 15 tools listed and then about called.
C25_Witness ==
    /\ pc = "called"
    /\ aboutContext
    /\ Len(listedTools) = 15
    /\ toolCall.name = "about"
    /\ toolCall.behaviour.does = "returns"
    /\ ~toolResult.isError

====
